---- MODULE Spec2Model ----
(***************************************************************************)
(* wallet-connect-skill: the account resolver (findAccount, parseAccount), *)
(* the bounded request gateway (requestWithTimeout) and the send-tx        *)
(* orchestrator (cmdSendTx, sendEvm, sendSolana), modelled from            *)
(* src/src/helpers.ts, and the token registry, modelled from               *)
(* src/src/commands/tokens.ts.                                             *)
(*                                                                         *)
(* A JavaScript string is a sequence of one-character strings, so that     *)
(* startsWith, split and join are computed as the runtime computes them.   *)
(* null / undefined is the empty sequence: every place below that returns  *)
(* it treats the empty string as absent too ("x || null", "if (!x)").      *)
(* Amounts are computed as the runtime computes them: parseFloat and the   *)
(* product are rounded to a double, Math.round and BigInt are exact.       *)
(***************************************************************************)
EXTENDS Integers, Sequences, FiniteSets, TLC

----------------------------------------------------------------------------
(* Strings *)

Null == <<>>
COLON == <<":">>
eip155 == <<"e", "i", "p", "1", "5", "5">>
solana == <<"s", "o", "l", "a", "n", "a">>
\* reference of the Solana mainnet chain id (abbreviated to its first letters)
SolRef == <<"5", "e", "y">>
\* reference of a Solana chain the tool has no RPC endpoint for
DevRef == <<"d", "e", "v">>

\* CAIP-2 chain ids
Eip155_1 == eip155 \o COLON \o <<"1">>
Eip155_10 == eip155 \o COLON \o <<"1", "0">>
Eip155_137 == eip155 \o COLON \o <<"1", "3", "7">>
Eip155_56 == eip155 \o COLON \o <<"5", "6">>
Eip155_8453 == eip155 \o COLON \o <<"8", "4", "5", "3">>
Eip155_42161 == eip155 \o COLON \o <<"4", "2", "1", "6", "1">>
SolanaMainnet == solana \o COLON \o SolRef
SolanaDev == solana \o COLON \o DevRef

\* addresses
AddrA == <<"0", "x", "A">>
AddrB == <<"0", "x", "B">>
AddrC == <<"0", "x", "C">>
AddrS == <<"S", "o", "1">>

\* CAIP-10 account ids held by a session
Acct1 == Eip155_1 \o COLON \o AddrA
Acct10 == Eip155_10 \o COLON \o AddrB
Acct137 == Eip155_137 \o COLON \o AddrB
Acct56 == Eip155_56 \o COLON \o AddrC
AcctSol == SolanaMainnet \o COLON \o AddrS

\* String.prototype.startsWith
StartsWith(s, p) == Len(p) <= Len(s) /\ SubSeq(s, 1, Len(p)) = p

\* String.prototype.endsWith
EndsWith(s, p) == Len(p) <= Len(s) /\ SubSeq(s, Len(s) - Len(p) + 1, Len(s)) = p

\* position of the first ":" of s, 0 when there is none
RECURSIVE IndexOfColon(_, _)
IndexOfColon(s, i) ==
  IF i > Len(s) THEN 0
  ELSE IF s[i] = ":" THEN i
  ELSE IndexOfColon(s, i + 1)

\* String.prototype.split(":"): the segments between the colons, in order
RECURSIVE Split(_)
Split(s) ==
  LET k == IndexOfColon(s, 1)
  IN IF k = 0 THEN <<s>>
     ELSE <<SubSeq(s, 1, k - 1)>> \o Split(SubSeq(s, k + 1, Len(s)))

\* Array.prototype.join(":")
RECURSIVE Join(_)
Join(parts) ==
  IF Len(parts) = 0 THEN <<>>
  ELSE IF Len(parts) = 1 THEN parts[1]
  ELSE parts[1] \o COLON \o Join(Tail(parts))

\* Array.prototype.find over a predicate given as the set of elements that
\* satisfy it: the first such element in list order, undefined when none
RECURSIVE FindFirst(_, _)
FindFirst(list, good) ==
  IF Len(list) = 0 THEN Null
  ELSE IF Head(list) \in good THEN Head(list)
  ELSE FindFirst(Tail(list), good)

\* the elements of a list
Range(list) == {list[i] : i \in DOMAIN list}

\* list[i] of a destructuring or an index past the end: undefined
At(list, i) == IF i \in DOMAIN list THEN list[i] ELSE Null

----------------------------------------------------------------------------
(* Account Resolver *)

\* line 18: accounts.find(a => a.startsWith(chainHint + ":") || a.startsWith(chainHint))
ExactMatches(accounts, chainHint) ==
  {a \in Range(accounts) :
     StartsWith(a, chainHint \o COLON) \/ StartsWith(a, chainHint)}

\* line 20-21: accounts.find(a => a.startsWith(chainHint.split(":")[0] + ":"))
NamespaceMatches(accounts, chainHint) ==
  {a \in Range(accounts) : StartsWith(a, Split(chainHint)[1] \o COLON)}

findAccount(accounts, chainHint) ==
  IF chainHint = Null THEN At(accounts, 1)
  ELSE LET exact == FindFirst(accounts, ExactMatches(accounts, chainHint))
       IN IF exact # Null THEN exact
          ELSE FindFirst(accounts, NamespaceMatches(accounts, chainHint))

\* parseAccountId of @walletconnect/utils, as imported on line 5:
\* const [namespace, reference, address] = account.split(":")
parseAccountId(accountStr) ==
  LET parts == Split(accountStr)
  IN [namespace |-> At(parts, 1), reference |-> At(parts, 2), address |-> At(parts, 3)]

parseAccount(accountStr) ==
  LET parsed == parseAccountId(accountStr)
  IN [namespace |-> parsed.namespace,
      reference |-> parsed.reference,
      chainId |-> parsed.namespace \o COLON \o parsed.reference,
      address |-> parsed.address]

----------------------------------------------------------------------------
(* Token Registry (src/src/commands/tokens.ts) *)

\* TOKENS (lines 7-63): decimals, and the chains with an address, per symbol
TOKENS ==
  [USDC |-> [decimals |-> 6,
             addresses |-> {Eip155_1, Eip155_8453, Eip155_42161, Eip155_10,
                            Eip155_137, SolanaMainnet}],
   USDT |-> [decimals |-> 6,
             addresses |-> {Eip155_1, Eip155_10, Eip155_137, Eip155_56,
                            SolanaMainnet}],
   WETH |-> [decimals |-> 18,
             addresses |-> {Eip155_1, Eip155_42161, Eip155_8453, Eip155_10,
                            Eip155_137}],
   DAI |-> [decimals |-> 18,
            addresses |-> {Eip155_1, Eip155_42161, Eip155_8453, Eip155_10,
                           Eip155_137}],
   WBTC |-> [decimals |-> 8,
             addresses |-> {Eip155_1, Eip155_42161, Eip155_10, Eip155_137}]]

\* Object.entries(TOKENS): the symbols in the order of the registry
TokenSymbols == <<"USDC", "USDT", "WETH", "DAI", "WBTC">>

\* the address the registry holds for a symbol on a chain, named by the two
TokenAddressOf(symbol, chainId) == <<symbol, "@">> \o chainId

\* TOKENS[symbol]?.addresses?.[chainId] || null
getTokenAddress(symbol, chainId) ==
  IF symbol \in DOMAIN TOKENS /\ chainId \in TOKENS[symbol].addresses
    THEN TokenAddressOf(symbol, chainId)
    ELSE Null

\* TOKENS[symbol]?.decimals ?? 18
getTokenDecimals(symbol) ==
  IF symbol \in DOMAIN TOKENS THEN TOKENS[symbol].decimals ELSE 18

\* chainId.startsWith("solana:") && !!getTokenAddress(symbol, chainId)
isSplTokenAnyChain(symbol, chainId) == getTokenAddress(symbol, chainId) # Null
isSplToken(symbol, chainId) ==
  StartsWith(chainId, solana \o COLON) /\ getTokenAddress(symbol, chainId) # Null

\* getTokensForChain (77-85): the registry entries that have an address on the
\* chain, in registry order
RECURSIVE TokensFrom(_, _)
TokensFrom(symbols, chainId) ==
  IF Len(symbols) = 0 THEN <<>>
  ELSE (IF chainId \in TOKENS[Head(symbols)].addresses
          THEN <<[symbol |-> Head(symbols),
                  decimals |-> TOKENS[Head(symbols)].decimals,
                  address |-> TokenAddressOf(Head(symbols), chainId)]>>
          ELSE <<>>)
       \o TokensFrom(Tail(symbols), chainId)

getTokensForChain(chainId) == TokensFrom(TokenSymbols, chainId)

\* EVM_CHAINS[chainId].native (src/src/commands/balance.ts 16-23), and SOL for
\* a Solana chain (helpers.ts 189)
NativeSymbol(chainId) ==
  IF chainId \in {Eip155_1, Eip155_42161, Eip155_8453, Eip155_10} THEN "ETH"
  ELSE IF chainId = Eip155_137 THEN "POL"
  ELSE IF chainId = Eip155_56 THEN "BNB"
  ELSE IF StartsWith(chainId, solana \o COLON) THEN "SOL"
  ELSE ""

\* SOLANA_RPC[chain]
SOLANA_RPC(chain) == IF chain = SolanaMainnet THEN <<"r", "p", "c">> ELSE Null

----------------------------------------------------------------------------
(* Numbers: parseFloat, the double product, Math.round, BigInt, toString(16) *)

\* A natural number of any size is the sequence of its digits to the base
\* Base, most significant first and without leading zeros; zero is the empty
\* sequence.  A double is a record [m, e] that stands for m / Base^e.

Digits == <<"0", "1", "2", "3", "4", "5", "6", "7", "8", "9">>
HexDigits == Digits \o <<"a", "b", "c", "d", "e", "f">>
IsDigit(c) == \E d \in DOMAIN Digits : Digits[d] = c
DigitValue(c) == (CHOOSE d \in DOMAIN Digits : Digits[d] = c) - 1

\* binary digits of one digit to the base Base
LimbBits == 12
Base == 2 ^ LimbBits

\* the digits of a small number
RECURSIVE ToLimbs(_)
ToLimbs(n) == IF n = 0 THEN <<>> ELSE Append(ToLimbs(n \div Base), n % Base)

\* how many binary digits a small number has
RECURSIVE BitLen(_)
BitLen(n) == IF n = 0 THEN 0 ELSE 1 + BitLen(n \div 2)

RECURSIVE StripZeros(_)
StripZeros(x) ==
  IF Len(x) = 0 \/ x[1] # 0 THEN x ELSE StripZeros(Tail(x))

Zeros(n) == [i \in 1..n |-> 0]

\* x * m + c for small m >= 1 and c, from the last digit of x upwards
RECURSIVE MulAddAt(_, _, _, _)
MulAddAt(x, i, m, carry) ==
  IF i = 0 THEN ToLimbs(carry)
  ELSE LET v == x[i] * m + carry
       IN Append(MulAddAt(x, i - 1, m, v \div Base), v % Base)

MulAdd(x, m, c) == MulAddAt(x, Len(x), m, c)

\* x * 10^k, four decimal digits at a time
RECURSIVE MulPow10(_, _)
MulPow10(x, k) ==
  IF k = 0 THEN x
  ELSE IF k < 4 THEN MulAdd(x, 10 ^ k, 0)
  ELSE MulAdd(MulPow10(x, k - 4), 10000, 0)

\* quotient and remainder of x by a small m, from the first digit of x downwards
RECURSIVE DivModAt(_, _, _, _)
DivModAt(x, i, m, rem) ==
  IF i > Len(x) THEN [q |-> <<>>, r |-> rem]
  ELSE LET v == rem * Base + x[i]
           rest == DivModAt(x, i + 1, m, v % m)
       IN [q |-> <<v \div m>> \o rest.q, r |-> rest.r]

DivMod(x, m) ==
  LET d == DivModAt(x, 1, m, 0)
  IN [q |-> StripZeros(d.q), r |-> d.r]

\* floor(x / 10^k), and whether any digit was lost, four decimal digits at a
\* time
RECURSIVE DivPow10(_, _)
DivPow10(x, k) ==
  IF k = 0 THEN [q |-> x, inexact |-> FALSE]
  ELSE LET step == IF k < 4 THEN k ELSE 4
           p == DivPow10(x, k - step)
           d == DivMod(p.q, 10 ^ step)
       IN [q |-> d.q, inexact |-> p.inexact \/ d.r # 0]

\* x + 1
RECURSIVE Inc(_)
Inc(x) ==
  IF Len(x) = 0 THEN <<1>>
  ELSE IF x[Len(x)] < Base - 1
    THEN SubSeq(x, 1, Len(x) - 1) \o <<x[Len(x)] + 1>>
  ELSE Inc(SubSeq(x, 1, Len(x) - 1)) \o <<0>>

\* significant binary digits of a double
Precision == 53

\* x (with digits lost below it when sticky) rounded to the nearest number of
\* Precision significant binary digits, ties to the even one
RoundToDouble(x, sticky) ==
  LET drop == LimbBits * (Len(x) - 1) + BitLen(x[1]) - Precision
      limbs == (drop - 1) \div LimbBits
      bits == (drop - 1) % LimbBits
      kept == SubSeq(x, 1, Len(x) - limbs)
      lost == SubSeq(x, Len(x) - limbs + 1, Len(x))
      d == DivMod(kept, 2 ^ bits)
      h == DivMod(d.q, 2)
      below == sticky \/ d.r # 0 \/ \E i \in DOMAIN lost : lost[i] # 0
      up == h.r = 1 /\ (below \/ h.q[Len(h.q)] % 2 = 1)
  IN IF Len(x) = 0 \/ drop <= 0 THEN x
     ELSE MulAdd(IF up THEN Inc(h.q) ELSE h.q, 2 ^ (bits + 1), 0) \o Zeros(limbs)

\* how many decimal digits str holds from position i on
RECURSIVE DigitRun(_, _)
DigitRun(str, i) ==
  IF i > Len(str) \/ ~IsDigit(str[i]) THEN 0 ELSE 1 + DigitRun(str, i + 1)

\* the number a string of decimal digits writes
RECURSIVE FromDecimal(_)
FromDecimal(ds) ==
  IF Len(ds) = 0 THEN <<>>
  ELSE MulAdd(FromDecimal(SubSeq(ds, 1, Len(ds) - 1)), 10, DigitValue(ds[Len(ds)]))

\* the decimal digits parseFloat reads from the start of str (those of the
\* integer part followed by those of the fraction) and how many of them are
\* fraction digits; signs, exponents and white space are left out
DecimalPrefix(str) ==
  LET ip == DigitRun(str, 1)
      fp == IF ip < Len(str) /\ str[ip + 1] = "." THEN DigitRun(str, ip + 2) ELSE 0
  IN [digits |-> SubSeq(str, 1, ip) \o SubSeq(str, ip + 2, ip + 1 + fp), fraction |-> fp]

NaN == [nan |-> TRUE, m |-> <<>>, e |-> 0]

\* parseFloat(str): the double nearest to the decimal number str starts with,
\* NaN when str is undefined or starts with none
parseFloat(str) ==
  LET p == DecimalPrefix(str)
      e == 9 + p.fraction
      d == DivPow10(StripZeros(FromDecimal(p.digits) \o Zeros(e)), p.fraction)
  IN IF Len(p.digits) = 0 THEN NaN
     ELSE [nan |-> FALSE, m |-> RoundToDouble(d.q, d.inexact), e |-> e]

\* x * 10 ** decimals, x * 1e18, x * LAMPORTS_PER_SOL: the double nearest to
\* the product (10^k is a double for every k used)
TimesPow10(x, k) ==
  IF x.nan THEN NaN
  ELSE [nan |-> FALSE, m |-> RoundToDouble(MulPow10(x.m, k), FALSE), e |-> x.e]

\* Math.round(x): x rounded to an integer, halves upwards; NaN stays
MathRound(x) ==
  LET n == Len(x.m)
      int == IF n > x.e THEN SubSeq(x.m, 1, n - x.e) ELSE <<>>
      half == x.e > 0 /\ n >= x.e /\ x.m[n - x.e + 1] >= Base \div 2
  IN IF x.nan THEN NaN
     ELSE [nan |-> FALSE, m |-> IF half THEN Inc(int) ELSE int, e |-> 0]

\* the hexadecimal digits of one digit to the base Base
HexOfLimb(v) ==
  <<HexDigits[(v \div 256) + 1], HexDigits[((v \div 16) % 16) + 1], HexDigits[(v % 16) + 1]>>

RECURSIVE HexOf(_)
HexOf(x) == IF Len(x) = 0 THEN <<>> ELSE HexOfLimb(x[1]) \o HexOf(Tail(x))

RECURSIVE StripLeading0(_)
StripLeading0(str) ==
  IF Len(str) <= 1 \/ str[1] # "0" THEN str ELSE StripLeading0(Tail(str))

\* BigInt.prototype.toString(16)
ToString16(x) == IF Len(x) = 0 THEN <<"0">> ELSE StripLeading0(HexOf(x))

\* String.prototype.padStart(n, "0")
PadStart(str, n) ==
  IF Len(str) >= n THEN str ELSE [i \in 1..(n - Len(str)) |-> "0"] \o str

\* String.prototype.replace("0x", ""): the first occurrence is removed
RECURSIVE IndexOf0x(_, _)
IndexOf0x(str, i) ==
  IF i + 1 > Len(str) THEN 0
  ELSE IF str[i] = "0" /\ str[i + 1] = "x" THEN i
  ELSE IndexOf0x(str, i + 1)

Replace0x(str) ==
  LET k == IndexOf0x(str, 1)
  IN IF k = 0 THEN str ELSE SubSeq(str, 1, k - 1) \o SubSeq(str, k + 2, Len(str))

VARIABLES
  args,         \* send-tx: the parsed command line (ParsedArgs)
  session,      \* send-tx: the registry entry of args.topic, as loadSessions reads it
  pc,           \* send-tx: position of cmdSendTx
  chain,        \* send-tx: args.chain || "eip155:1"
  from,         \* send-tx: address of the sender account
  resolvedTo,   \* send-tx: the resolved recipient
  instructions, \* send-tx: Solana instruction list
  tx,           \* send-tx: the encoded payload handed to requestWithTimeout
  err,          \* send-tx: message of the exception in flight
  request,      \* gateway: the wallet's client.request promise
  race,         \* gateway: the Promise.race promise
  pollTimer,    \* gateway: setInterval timer
  timeoutTimer, \* gateway: setTimeout timer
  settled,      \* gateway: outcomes requestWithTimeout delivered to its caller
  trace,        \* everything the invocation did that is visible outside, in order
  acctList,     \* findAccount: the account list passed in
  hint,         \* findAccount: the chain hint passed in
  found,        \* findAccount: what its calls returned, in order
  parseIn,      \* parseAccount: the account string passed in
  parseOut,     \* parseAccount: what the last call returned
  feeIn,        \* priority fee: what getRecentPrioritizationFees answered
  feeOut,       \* priority fee: the instruction list after the step
  regIn,        \* token registry: the symbol and the chain looked up
  regOut,       \* token registry: what the lookups returned
  rawIn,        \* swap amounts: the human amount and the decimals passed in
  rawOut,       \* swap amounts: what toRaw and fromRaw returned
  lookIn,       \* session lookup: the registry, --address and --topic
  lookOut,      \* session lookup: what findSessionByAddress and resolveAddress returned
  signIn,       \* sign: the accounts of the session and --chain
  signOut,      \* sign: the account selected and the request sent
  registry,     \* session store: sessions.json, the entry of every topic
  clock,        \* session store: the time new Date() reads
  issued,       \* session store: the number of session topics the relay has issued
  auth,         \* session store: the auth invocation in progress
  health,       \* session store: the health invocation in progress
  deleted,      \* session store: the topics a finished delete-session removed
  out           \* session store: the status or error a command printed last

sendVars == <<args, session, pc, chain, from, resolvedTo, instructions, tx, err,
              request, race, pollTimer, timeoutTimer, settled, trace>>
findVars == <<acctList, hint, found>>
parseVars == <<parseIn, parseOut>>
feeVars == <<feeIn, feeOut>>
regVars == <<regIn, regOut>>
rawVars == <<rawIn, rawOut>>
lookVars == <<lookIn, lookOut>>
signVars == <<signIn, signOut>>
storeVars == <<registry, clock, issued, auth, health, deleted, out>>
\* the state of send-tx and of the operations of helpers.ts and tokens.ts
coreVars == <<sendVars, findVars, parseVars, feeVars, regVars>>
\* the state of the operations of the other commands
laterVars == <<rawVars, lookVars, signVars, storeVars>>
vars == <<coreVars, laterVars>>

----------------------------------------------------------------------------
(* Bounds and input domains *)

\* how many liveness notifications one request is followed through
MaxPolls == 2

Topics == {"T", ""}
Chains == {Null, Eip155_1, Eip155_56, SolanaMainnet, SolanaDev}
EnsName == <<"v", ".", "e", "t", "h">>
Recipients == {Null, AddrB, EnsName, AddrS}
Symbols == {"", "USDC", "DAI", "ETH", "BNB", "SOL", "FOO"}
\* --amount: absent, 0.01, 1.1, 5.0
Amounts == {Null, <<"0", ".", "0", "1">>, <<"1", ".", "1">>, <<"5", ".", "0">>}
SessionAccounts == {<<Acct1, AcctSol>>, <<Acct10>>, <<Acct56>>, <<AcctSol>>}
Sessions == {[exists |-> FALSE, accounts |-> <<>>]}
              \cup {[exists |-> TRUE, accounts |-> l] : l \in SessionAccounts}

----------------------------------------------------------------------------
(* Values *)

NoVal == [kind |-> "none", id |-> ""]
Error(msg) == [kind |-> "error", id |-> msg]
IdleRace == [state |-> "idle", val |-> NoVal]
NoTx == [method |-> "", chainId |-> Null, from |-> Null, to |-> Null,
         rcpt |-> Null, kind |-> "", value |-> Null, data |-> Null,
         instrs |-> <<>>]

\* line 123
TimeoutMsg == "Request timed out after 5 minutes -- user did not respond"
EnsMsg == "Could not resolve ENS name"
NoTopicMsg == "--topic required"
NoProjectMsg == "WALLETCONNECT_PROJECT_ID env var required"
NoSessionMsg == "Session not found"
NoEvmAccountMsg == "No EVM account found"
NoSolAccountMsg == "No Solana account found"
NoRpcMsg == "No RPC for chain"
NoTokenMsg == "Token not supported"
BigIntMsg == "The number NaN cannot be converted to a BigInt because it is not an integer"
UndefinedToMsg == "Cannot read properties of undefined (reading 'endsWith')"
NullResultMsg == "Cannot read properties of null (reading 'signature')"
PublicKeyMsg == "Invalid public key input"
CloseMsg == "transportClose failed"
InitMsg == "SignClient.init failed"
RpcMsg == "failed to fetch"
UserRejectedMsg == "User rejected"
RelayMsg == "relay publish failed"

\* what the wallet can answer to a request of the given method: a transaction
\* hash string for eth_sendTransaction; for solana_signAndSendTransaction a
\* string, an object with a signature, an object without one, or null
WalletResponses(method) ==
  IF method = "eth_sendTransaction" THEN {[kind |-> "string", id |-> "0xTX"]}
  ELSE {[kind |-> "string", id |-> "SIG"], [kind |-> "object", id |-> "SIG"],
        [kind |-> "object", id |-> ""], [kind |-> "null", id |-> ""]}

WalletErrors == {UserRejectedMsg, RelayMsg}

\* parseFloat(amount) is NaN
IsNaN(amount) == parseFloat(amount).nan

\* BigInt(Math.round(parseFloat(amount) * 10 ** decimals)) (lines 200, 293 and
\* 300), defined when the product is not NaN
toBaseUnits(amount, decimals) ==
  MathRound(TimesPow10(parseFloat(amount), decimals)).m

\* amount || "0" (lines 215 and 300)
OrZero(amount) == IF amount = Null THEN <<"0">> ELSE amount

\* the function selector of transfer(address,uint256), with its 0x (line 296)
Selector == <<"0", "x", "a", "9", "0", "5", "9", "c", "b", "b">>

\* lines 294-296: the call data of an ERC-20 transfer
Erc20Data(toAddress, amount) ==
  Selector \o PadStart(Replace0x(toAddress), 64) \o PadStart(ToString16(amount), 64)

\* line 304: "0x" + weiAmount.toString(16)
HexValue(amount) == <<"0", "x">> \o ToString16(amount)

\* an instruction of the Solana transaction: what it does, who pays for it,
\* the base units it moves and the compute-unit price it sets
Instruction(op, payer, amount, microLamports) ==
  [op |-> op, payer |-> payer, amount |-> amount, microLamports |-> microLamports]

\* new PublicKey(s) accepts s: s is given and has no character outside base58
IsPublicKey(s) ==
  s # Null /\ \A i \in DOMAIN s : s[i] \notin {"0", "O", "I", "l", ".", ":"}

Event(ev, a, b) == [ev |-> ev, a |-> a, b |-> b]
Net(what) == Event("net", what, "")

\* positions of the events of one kind in a trace
Positions(t, ev) == {i \in DOMAIN t : t[i].ev = ev}

----------------------------------------------------------------------------
(* send-tx: cmdSendTx, sendEvm, sendSolana *)

\* what no step of send-tx writes: its inputs, and the state of the operations
\* modelled apart from it
inVars == <<args, session, findVars, parseVars, feeVars, regVars, laterVars>>
txVars == <<chain, from, resolvedTo, instructions, tx>>
gatewayVars == <<request, race, pollTimer, timeoutTimer, settled>>

InitSend ==
  /\ args \in [topic : Topics, chain : Chains, to : Recipients,
               token : Symbols, amount : Amounts]
  /\ session \in Sessions
  /\ pc = "start"
  /\ chain = Null
  /\ from = Null
  /\ resolvedTo = Null
  /\ instructions = <<>>
  /\ tx = NoTx
  /\ err = ""
  /\ request = [state |-> "idle", val |-> NoVal]
  /\ race = IdleRace
  /\ pollTimer = "off"
  /\ timeoutTimer = "off"
  /\ settled = <<>>
  /\ trace = <<>>

\* console.error(JSON.stringify({ error })) followed by process.exit(1)
Fail(msg) ==
  /\ trace' = Append(trace, Event("error", msg, ""))
  /\ pc' = "exited"
  /\ UNCHANGED err

\* where an exception goes: to the catch of lines 347-349 when it is raised
\* inside the try of lines 341-346, out of cmdSendTx otherwise
ThrowTargetNoCatch(inTry) == "threw"
ThrowTarget(inTry) == IF inTry THEN "catch" ELSE "threw"

\* an exception raised inside the try block
Throw(msg) ==
  /\ err' = msg
  /\ pc' = ThrowTarget(TRUE)

\* lines 332-335
CheckTopic ==
  /\ pc = "start"
  /\ IF args.topic = ""
       THEN Fail(NoTopicMsg)
       ELSE pc' = "getClient" /\ UNCHANGED <<trace, err>>
  /\ UNCHANGED <<inVars, txVars, gatewayVars>>

\* line 337 and client.ts 50-69: the project id is checked, then SignClient.init
\* connects to the relay
GetClient ==
  /\ pc = "getClient"
  /\ \E projectId \in BOOLEAN, initOk \in BOOLEAN :
       IF ~projectId THEN Fail(NoProjectMsg)
       ELSE /\ trace' = Append(trace, Net("SignClient.init"))
            /\ IF initOk
                 THEN pc' = "requireSession" /\ UNCHANGED err
                 ELSE pc' = ThrowTarget(FALSE) /\ err' = InitMsg
  /\ UNCHANGED <<inVars, txVars, gatewayVars>>

\* lines 338-346 and requireSession (67-74)
RequireSession ==
  /\ pc = "requireSession"
  /\ IF ~session.exists
       THEN Fail(NoSessionMsg) /\ UNCHANGED chain
       ELSE /\ chain' = IF args.chain = Null THEN Eip155_1 ELSE args.chain
            /\ pc' = IF StartsWith(chain', solana \o COLON)
                       THEN "sol:account" ELSE "evm:account"
            /\ UNCHANGED <<trace, err>>
  /\ UNCHANGED <<inVars, from, resolvedTo, instructions, tx, gatewayVars>>

\* requireAccount (79-90): the account findAccount selects, Null when it exits
requireAccount(sessionData, hintArg) == findAccount(sessionData.accounts, hintArg)

\* lines 276-277
EvmRequireAccount ==
  /\ pc = "evm:account"
  /\ LET account == requireAccount(session, chain)
     IN IF account = Null
          THEN Fail(NoEvmAccountMsg) /\ UNCHANGED from
          ELSE /\ from' = parseAccount(account).address
               /\ trace' = Append(trace, Event("accountResolved", "", ""))
               /\ pc' = "evm:resolve"
               /\ UNCHANGED err
  /\ UNCHANGED <<inVars, chain, resolvedTo, instructions, tx, gatewayVars>>

\* line 96: the suffix of a name the name service resolves
EnsSuffix == <<".", "e", "t", "h">>

\* what client.getEnsAddress answers: the registered address, null for a name
\* that has none, or a failure of the call
EnsAnswers == {"address", "null", "error"}

\* line 99: if (!resolved) throw
IsUnresolvedNever(resolved) == FALSE
IsUnresolved(resolved) == resolved = Null

\* line 279 and resolveAddress (95-101)
EvmResolveAddress ==
  /\ pc = "evm:resolve"
  /\ IF args.to = Null
       THEN Throw(UndefinedToMsg) /\ UNCHANGED <<trace, resolvedTo>>
     ELSE IF ~EndsWith(args.to, EnsSuffix)
       THEN /\ resolvedTo' = args.to
            /\ trace' = Append(trace, Event("recipientResolved", "", ""))
            /\ pc' = "evm:encode"
            /\ UNCHANGED err
     ELSE \E answer \in EnsAnswers :
            LET resolved == IF answer = "address" THEN AddrC ELSE Null
                lookup == Event("net", "getEnsAddress", answer)
            IN IF answer = "error"
                 THEN /\ trace' = Append(trace, lookup)
                      /\ Throw(RpcMsg)
                      /\ UNCHANGED resolvedTo
               ELSE IF IsUnresolved(resolved)
                 THEN /\ trace' = Append(trace, lookup)
                      /\ Throw(EnsMsg)
                      /\ UNCHANGED resolvedTo
               ELSE /\ resolvedTo' = resolved
                    /\ trace' = trace \o <<lookup, Event("recipientResolved", "", "")>>
                    /\ pc' = "evm:encode"
                    /\ UNCHANGED err
  /\ UNCHANGED <<inVars, chain, from, instructions, tx, gatewayVars>>

\* the recipient an encoder writes into the payload (lines 294, 303, 186)
TxRecipientUnresolved(argTo, resolved) == argTo
TxRecipient(argTo, resolved) == resolved

\* lines 284-306
EvmEncode ==
  /\ pc = "evm:encode"
  /\ IF args.token # "" /\ args.token # "ETH"
       THEN IF getTokenAddress(args.token, chain) = Null
              THEN Fail(NoTokenMsg) /\ UNCHANGED tx
            ELSE IF IsNaN(args.amount)
              THEN /\ Throw(BigIntMsg)
                   /\ trace' = Append(trace, Event("encodeStart", "", ""))
                   /\ UNCHANGED tx
            ELSE /\ tx' = [method |-> "eth_sendTransaction", chainId |-> chain,
                           from |-> from, to |-> getTokenAddress(args.token, chain),
                           rcpt |-> TxRecipient(args.to, resolvedTo),
                           kind |-> "data", value |-> Null,
                           data |-> Erc20Data(TxRecipient(args.to, resolvedTo),
                                              toBaseUnits(args.amount,
                                                          getTokenDecimals(args.token))),
                           instrs |-> <<>>]
                 /\ trace' = trace \o <<Event("encodeStart", "", ""),
                                         Event("encoded", "", "")>>
                 /\ pc' = "evm:submit"
                 /\ UNCHANGED err
     ELSE IF IsNaN(OrZero(args.amount))
       THEN /\ Throw(BigIntMsg)
            /\ trace' = Append(trace, Event("encodeStart", "", ""))
            /\ UNCHANGED tx
     ELSE /\ tx' = [method |-> "eth_sendTransaction", chainId |-> chain,
                    from |-> from, to |-> TxRecipient(args.to, resolvedTo),
                    rcpt |-> TxRecipient(args.to, resolvedTo),
                    kind |-> "value",
                    value |-> HexValue(toBaseUnits(OrZero(args.amount), 18)),
                    data |-> Null, instrs |-> <<>>]
          /\ trace' = trace \o <<Event("encodeStart", "", ""),
                                  Event("encoded", "", "")>>
          /\ pc' = "evm:submit"
          /\ UNCHANGED err
  /\ UNCHANGED <<inVars, chain, from, resolvedTo, instructions, gatewayVars>>

\* lines 175-182
SolRequireAccount ==
  /\ pc = "sol:account"
  /\ LET account == requireAccount(session, chain)
     IN IF account = Null
          THEN Fail(NoSolAccountMsg) /\ UNCHANGED from
        ELSE IF SOLANA_RPC(chain) = Null
          THEN Fail(NoRpcMsg) /\ UNCHANGED from
        ELSE /\ from' = parseAccount(account).address
             /\ trace' = Append(trace, Event("accountResolved", "", ""))
             /\ pc' = "sol:pubkeys"
             /\ UNCHANGED err
  /\ UNCHANGED <<inVars, chain, resolvedTo, instructions, tx, gatewayVars>>

\* lines 184-189
SolPubkeys ==
  /\ pc = "sol:pubkeys"
  /\ IF ~IsPublicKey(from) \/ ~IsPublicKey(args.to)
       THEN Throw(PublicKeyMsg) /\ UNCHANGED <<trace, resolvedTo>>
       ELSE /\ resolvedTo' = args.to
            /\ trace' = Append(trace, Event("recipientResolved", "", ""))
            /\ pc' = "sol:build"
            /\ UNCHANGED err
  /\ UNCHANGED <<inVars, chain, from, instructions, tx, gatewayVars>>

\* lines 206-212: the instructions of an SPL transfer, given what
\* getAccountInfo answered for the recipient's associated token account
AtaInstructionsAppended(toAtaInfo, payer, amount) ==
  <<Instruction("createTransfer", Null, amount, 0)>>
    \o (IF toAtaInfo = "null"
          THEN <<Instruction("createAssociatedTokenAccount", payer, <<>>, 0)>>
          ELSE <<>>)
AtaInstructions(toAtaInfo, payer, amount) ==
  (IF toAtaInfo = "null"
     THEN <<Instruction("createAssociatedTokenAccount", payer, <<>>, 0)>>
     ELSE <<>>)
    \o <<Instruction("createTransfer", Null, amount, 0)>>

\* Array.prototype.filter(f => f > 0)
RECURSIVE FilterPositive(_)
FilterPositive(list) ==
  IF Len(list) = 0 THEN <<>>
  ELSE (IF Head(list) > 0 THEN <<Head(list)>> ELSE <<>>) \o FilterPositive(Tail(list))

\* x put into an ascending list at its place
RECURSIVE Insert(_, _)
Insert(x, sorted) ==
  IF Len(sorted) = 0 THEN <<x>>
  ELSE IF x <= Head(sorted) THEN <<x>> \o sorted
  ELSE <<Head(sorted)>> \o Insert(x, Tail(sorted))

\* Array.prototype.sort((a, b) => a - b)
RECURSIVE SortAscending(_)
SortAscending(list) ==
  IF Len(list) = 0 THEN <<>> ELSE Insert(Head(list), SortAscending(Tail(list)))

\* lines 221-224
feeValues(recentFees) == SortAscending(FilterPositive(recentFees))

\* line 226: feeValues[Math.floor(feeValues.length / 2)], arrays counted from 0
medianFeeLowerMiddle(values) == values[((Len(values) - 1) \div 2) + 1]
medianFee(values) == values[(Len(values) \div 2) + 1]

\* lines 219-231: the instruction list after the priority-fee step; the answer
\* of getRecentPrioritizationFees is an error or a list of fees
WithPriorityFee(answer, instrs) ==
  IF ~answer.failed /\ Len(feeValues(answer.fees)) > 0
    THEN <<Instruction("setComputeUnitPrice", Null, <<>>, medianFee(feeValues(answer.fees)))>>
           \o instrs
    ELSE instrs

\* lines 229-231: where the run goes after the priority-fee step; the empty
\* catch block takes a failure of the call
AfterFeesUncaught(failed) == IF failed THEN ThrowTarget(TRUE) ELSE "sol:blockhash"
AfterFees(failed) == "sol:blockhash"

\* what getRecentPrioritizationFees answers in a run of send-tx
FeeSamples == {<<>>, <<0>>, <<2, 1>>, <<3, 0, 1, 2>>}
FeeAnswers == {[failed |-> FALSE, fees |-> f] : f \in FeeSamples}
                \cup {[failed |-> TRUE, fees |-> <<1>>]}

\* lines 191-205 and 214-217: up to the call of getAccountInfo
SolBuild ==
  /\ pc = "sol:build"
  /\ IF args.token # "" /\ args.token # "SOL"
       THEN IF getTokenAddress(args.token, chain) = Null
              THEN Fail(NoTokenMsg) /\ UNCHANGED instructions
            ELSE IF IsNaN(args.amount)
              THEN /\ Throw(BigIntMsg)
                   /\ trace' = Append(trace, Event("encodeStart", "", ""))
                   /\ UNCHANGED instructions
            ELSE /\ trace' = trace \o <<Event("encodeStart", "", ""),
                                         Net("getAccountInfo")>>
                 /\ pc' = "sol:probe"
                 /\ UNCHANGED <<err, instructions>>
     ELSE IF IsNaN(OrZero(args.amount))
       THEN /\ Throw(BigIntMsg)
            /\ trace' = Append(trace, Event("encodeStart", "", ""))
            /\ UNCHANGED instructions
     ELSE /\ instructions' =
               <<Instruction("SystemProgram.transfer", Null,
                             toBaseUnits(OrZero(args.amount), 9), 0)>>
          /\ trace' = Append(trace, Event("encodeStart", "", ""))
          /\ pc' = "sol:fees"
          /\ UNCHANGED err
  /\ UNCHANGED <<inVars, chain, from, resolvedTo, tx, gatewayVars>>

\* lines 205-213: the answer of getAccountInfo (the account's data, null for an
\* account that does not exist, or a failure) and the instructions that follow
SolAtaProbe ==
  /\ pc = "sol:probe"
  /\ \E toAtaInfo \in {"info", "null", "error"} :
       /\ trace' = Append(trace, Event("probe", toAtaInfo, ""))
       /\ IF toAtaInfo = "error"
            THEN Throw(RpcMsg) /\ UNCHANGED instructions
            ELSE /\ instructions' =
                      AtaInstructions(toAtaInfo, from,
                                      toBaseUnits(args.amount, getTokenDecimals(args.token)))
                 /\ pc' = "sol:fees"
                 /\ UNCHANGED err
  /\ UNCHANGED <<inVars, chain, from, resolvedTo, tx, gatewayVars>>

\* lines 219-231
SolFees ==
  /\ pc = "sol:fees"
  /\ \E answer \in FeeAnswers :
       /\ instructions' = WithPriorityFee(answer, instructions)
       /\ trace' = trace \o <<Net("getRecentPrioritizationFees"),
                               Event("fees", IF answer.failed THEN "error" ELSE "ok", "")>>
       /\ pc' = AfterFees(answer.failed)
       /\ err' = IF pc' = "sol:blockhash" THEN err ELSE RpcMsg
  /\ UNCHANGED <<inVars, chain, from, resolvedTo, tx, gatewayVars>>

\* lines 233-242
SolBlockhash ==
  /\ pc = "sol:blockhash"
  /\ \E ok \in BOOLEAN :
       IF ~ok
         THEN /\ Throw(RpcMsg)
              /\ trace' = Append(trace, Net("getLatestBlockhash"))
              /\ UNCHANGED tx
         ELSE /\ tx' = [method |-> "solana_signAndSendTransaction", chainId |-> chain,
                        from |-> from, to |-> TxRecipient(args.to, resolvedTo),
                        rcpt |-> TxRecipient(args.to, resolvedTo),
                        kind |-> "transaction", value |-> Null, data |-> Null,
                        instrs |-> instructions]
              /\ trace' = trace \o <<Net("getLatestBlockhash"), Event("encoded", "", "")>>
              /\ pc' = "sol:submit"
              /\ UNCHANGED err
  /\ UNCHANGED <<inVars, chain, from, resolvedTo, instructions, gatewayVars>>

----------------------------------------------------------------------------
(* Bounded Request Gateway: requestWithTimeout (lines 106-132) *)

\* Promise.race (lines 119-127): the first settlement of an input decides the
\* race; a settlement that arrives later changes nothing
SettleRaceLastWins(r, state, val) ==
  IF r.state = "idle" THEN r ELSE [state |-> state, val |-> val]
SettleRace(r, state, val) ==
  IF r.state = "pending" THEN [state |-> state, val |-> val] ELSE r

\* clearInterval(pollTimer) of the finally block (lines 129-131)
LeakInterval(timer) == timer
ClearInterval(timer) == "cleared"

\* Synchronous code and promise continuations run to their next await before
\* any timer callback or network answer is delivered.
Runnable == pc \in {"afterRace", "evm:format", "sol:format", "catch", "threw"}
Alive == pc # "exited"

\* the continuation of line 119 is scheduled when the race settles
Wake(r) == IF pc = "awaitRace" /\ r.state \in {"fulfilled", "rejected"}
             THEN "afterRace" ELSE pc

Polls == Cardinality(Positions(trace, "waiting"))

\* lines 308-315 and 244-251 entering 111-127: the interval timer is set, the
\* request goes to the wallet, the deadline timer is set
Submit ==
  /\ pc \in {"evm:submit", "sol:submit"}
  /\ pollTimer' = "armed"
  /\ request' = [state |-> "pending", val |-> NoVal]
  /\ timeoutTimer' = "armed"
  /\ race' = [state |-> "pending", val |-> NoVal]
  /\ trace' = Append(trace, Event("submit", tx.method, ""))
  /\ pc' = "awaitRace"
  /\ UNCHANGED <<inVars, txVars, err, settled>>

\* the wallet approves: client.request fulfils
WalletResolve ==
  /\ Alive /\ ~Runnable
  /\ request.state = "pending"
  /\ \E v \in WalletResponses(tx.method) :
       /\ request' = [state |-> "fulfilled", val |-> v]
       /\ race' = SettleRace(race, "fulfilled", v)
  /\ pc' = Wake(race')
  /\ trace' = Append(trace, Event("walletFulfilled", "", ""))
  /\ UNCHANGED <<inVars, txVars, err, pollTimer, timeoutTimer, settled>>

\* the wallet declines or the relay fails: client.request rejects
WalletReject ==
  /\ Alive /\ ~Runnable
  /\ request.state = "pending"
  /\ \E e \in WalletErrors :
       /\ request' = [state |-> "rejected", val |-> Error(e)]
       /\ race' = SettleRace(race, "rejected", Error(e))
  /\ pc' = Wake(race')
  /\ trace' = Append(trace, Event("walletRejected", "", ""))
  /\ UNCHANGED <<inVars, txVars, err, pollTimer, timeoutTimer, settled>>

\* lines 113-116: the interval callback writes the waiting notification
Poll ==
  /\ Alive /\ ~Runnable
  /\ pollTimer = "armed"
  /\ Polls < MaxPolls
  /\ trace' = Append(trace, Event("waiting", "", ""))
  /\ UNCHANGED <<inVars, txVars, err, pc, gatewayVars>>

\* lines 122-125: the deadline callback rejects its promise
TimeoutFire ==
  /\ Alive /\ ~Runnable
  /\ timeoutTimer = "armed"
  /\ timeoutTimer' = "fired"
  /\ race' = SettleRace(race, "rejected", Error(TimeoutMsg))
  /\ pc' = Wake(race')
  /\ trace' = Append(trace, Event("timeoutFired", "", ""))
  /\ UNCHANGED <<inVars, txVars, err, request, pollTimer, settled>>

\* lines 128-131: the await of line 119 resumes, the finally block runs and
\* requestWithTimeout returns the value or throws the error
RequestFinally ==
  /\ pc = "afterRace"
  /\ pollTimer' = ClearInterval(pollTimer)
  /\ settled' = Append(settled, race)
  /\ IF race.state = "fulfilled"
       THEN /\ pc' = IF tx.method = "eth_sendTransaction"
                       THEN "evm:format" ELSE "sol:format"
            /\ UNCHANGED err
       ELSE Throw(race.val.id)
  /\ UNCHANGED <<inVars, txVars, request, race, timeoutTimer, trace>>

----------------------------------------------------------------------------
(* send-tx: the result *)

\* line 254: typeof txResult === "string" ? txResult
\*             : txResult.signature || String(txResult)
SolTxIdNoSignature(result) ==
  IF result.kind = "string" THEN result.id ELSE "[object Object]"
SolTxId(result) ==
  IF result.kind = "string" THEN result.id
  ELSE IF result.id # "" THEN result.id
  ELSE "[object Object]"

\* lines 317-328
EvmFormat ==
  /\ pc = "evm:format"
  /\ trace' = Append(trace, Event("sent", Head(settled).val.id, ""))
  /\ pc' = "close"
  /\ UNCHANGED <<inVars, txVars, gatewayVars, err>>

\* lines 253-267; the explorer link is named by the transaction id it ends in
SolFormat ==
  /\ pc = "sol:format"
  /\ LET result == Head(settled).val
     IN IF result.kind = "null"
          THEN Throw(NullResultMsg) /\ UNCHANGED trace
          ELSE /\ trace' = Append(trace, Event("sent", SolTxId(result), SolTxId(result)))
               /\ pc' = "close"
               /\ UNCHANGED err
  /\ UNCHANGED <<inVars, txVars, gatewayVars>>

\* lines 347-349
Catch ==
  /\ pc = "catch"
  /\ trace' = Append(trace, Event("rejected", err, ""))
  /\ pc' = "close"
  /\ UNCHANGED <<inVars, txVars, gatewayVars, err>>

\* line 351
TransportClose ==
  /\ pc = "close"
  /\ \E ok \in BOOLEAN :
       IF ok THEN pc' = "returned" /\ UNCHANGED err
       ELSE pc' = ThrowTarget(FALSE) /\ err' = CloseMsg
  /\ trace' = Append(trace, Net("transportClose"))
  /\ UNCHANGED <<inVars, txVars, gatewayVars>>

\* cli.ts 165-168: the catch of the command's promise
CliCatch ==
  /\ pc = "threw"
  /\ Fail(err)
  /\ UNCHANGED <<inVars, txVars, gatewayVars>>

InitFindIdle ==
  /\ acctList = <<>>
  /\ hint = Null
  /\ found = <<>>

InitParseIdle ==
  /\ parseIn = Null
  /\ parseOut = [called |-> FALSE, result |-> parseAccount(Null)]

InitFeeIdle ==
  /\ feeIn = [failed |-> FALSE, fees |-> <<>>]
  /\ feeOut = [called |-> FALSE, instrs |-> <<>>]

InitRegistryIdle ==
  /\ regIn = [symbol |-> "", chainId |-> Null]
  /\ regOut = [calls |-> {}, address |-> Null, decimals |-> 0, isSpl |-> FALSE,
               tokens |-> <<>>]

InitRawIdle ==
  /\ rawIn = [amount |-> Null, decimals |-> 0]
  /\ rawOut = [calls |-> 0, raw |-> Null, human |-> Null, again |-> Null]

InitLookIdle ==
  /\ lookIn = [sessions |-> <<>>, address |-> Null, topic |-> ""]
  /\ lookOut = [calls |-> {}, match |-> Null, topic |-> "", exited |-> FALSE]

NoSignOut ==
  [step |-> "start", useSolana |-> FALSE, account |-> Null, method |-> "",
   chainId |-> Null, address |-> Null]

InitSignIdle ==
  /\ signIn = [accounts |-> <<>>, chain |-> Null]
  /\ signOut = [NoSignOut EXCEPT !.step = "idle"]

\* the entry of a topic the registry does not hold
NoSession ==
  [present |-> FALSE, accounts |-> <<>>, peerName |-> "", createdAt |-> 0,
   updatedAt |-> 0, authenticated |-> FALSE, authAddress |-> Null,
   authSignature |-> ""]

\* the topics of the sessions, in the order the relay issues them
TopicOrder == <<"T1", "T2">>
StoreTopics == Range(TopicOrder)
NoAuth == [pc |-> "idle", topic |-> "", sessionData |-> NoSession, address |-> Null,
           writes |-> 0]
NoHealth == [pc |-> "idle", sessions |-> [t \in StoreTopics |-> NoSession],
             topics |-> <<>>, pinged |-> 0, deadTopics |-> <<>>, clean |-> FALSE]
NoOut == ""

InitStoreIdle ==
  /\ registry = [t \in StoreTopics |-> NoSession]
  /\ clock = 1
  /\ issued = 0
  /\ auth = NoAuth
  /\ health = NoHealth
  /\ deleted = {}
  /\ out = NoOut

InitLaterIdle ==
  /\ InitRawIdle
  /\ InitLookIdle
  /\ InitSignIdle
  /\ InitStoreIdle

Init ==
  /\ InitSend
  /\ InitFindIdle
  /\ InitParseIdle
  /\ InitFeeIdle
  /\ InitRegistryIdle
  /\ InitLaterIdle

SendNext ==
  \/ CheckTopic
  \/ GetClient
  \/ RequireSession
  \/ EvmRequireAccount
  \/ EvmResolveAddress
  \/ EvmEncode
  \/ SolRequireAccount
  \/ SolPubkeys
  \/ SolBuild
  \/ SolAtaProbe
  \/ SolFees
  \/ SolBlockhash
  \/ Submit
  \/ WalletResolve
  \/ WalletReject
  \/ Poll
  \/ TimeoutFire
  \/ RequestFinally
  \/ EvmFormat
  \/ SolFormat
  \/ Catch
  \/ TransportClose
  \/ CliCatch

Next == SendNext

Spec == Init /\ [][Next]_vars

\* The event loop runs a due timer callback and a scheduled continuation as
\* long as the process is alive.
FairSpec == Spec /\ WF_vars(TimeoutFire) /\ WF_vars(RequestFinally)

----------------------------------------------------------------------------
(* Properties of the gateway and of send-tx *)

Submitted == Positions(trace, "submit") # {}
RaceSettled == race.state \in {"fulfilled", "rejected"}
TimedOut == race = [state |-> "rejected", val |-> Error(TimeoutMsg)]
\* cmdSendTx is past its try/catch
PastTry == pc \in {"close", "returned", "threw", "exited"}

C1_Outcome ==
  /\ Len(settled) <= 1
  /\ RaceSettled =>
       \/ race.state = "fulfilled" /\ request.state = "fulfilled" /\ race.val = request.val
       \/ race.state = "rejected" /\ request.state = "rejected" /\ race.val = request.val
       \/ TimedOut /\ timeoutTimer = "fired"
  /\ Len(settled) = 1 => settled[1] = race
  /\ (RaceSettled /\ pc # "afterRace") => Len(settled) = 1

\* C1: every call of requestWithTimeout settles, once, with the wallet's value,
\* the wallet's rejection or the timeout error, whichever came first; what
\* arrives after the first settlement neither changes the outcome nor adds one.
C1_SettlesExactlyOnce ==
  /\ []C1_Outcome
  /\ [][RaceSettled => race' = race]_vars
  /\ [][Len(settled) = 1 => settled' = settled]_vars
  /\ (race.state = "pending") ~> (Len(settled) = 1)

\* the timeout decided the call and the wallet answered afterwards
C1_Witness ==
  /\ TimedOut
  /\ request.state = "fulfilled"
  /\ Len(settled) = 1

\* C2: a send-tx request that times out ends with one rejected result that
\* carries the timeout message, and no waiting notification follows the firing
\* of the timeout.
C2_TimeoutRejected ==
  /\ \A i \in Positions(trace, "timeoutFired"), j \in Positions(trace, "waiting") : j < i
  /\ (TimedOut /\ PastTry) =>
       /\ Positions(trace, "sent") = {}
       /\ Cardinality(Positions(trace, "rejected")) = 1
       /\ \A k \in Positions(trace, "rejected") : trace[k].a = TimeoutMsg

\* a request that was polled, timed out and was reported
C2_Witness ==
  /\ TimedOut
  /\ Positions(trace, "waiting") # {}
  /\ \E k \in Positions(trace, "rejected") : trace[k].a = TimeoutMsg
  /\ pc = "returned"

\* C3: a sent result follows the wallet's success answer to the submitted
\* request and carries the transaction id of that answer (for Solana also the
\* explorer link of that id); a run emits at most one of sent and rejected.
C3_SentOnlyAfterSuccess ==
  /\ Cardinality(Positions(trace, "sent") \cup Positions(trace, "rejected")) <= 1
  /\ \A k \in Positions(trace, "sent") :
       /\ request.state = "fulfilled"
       /\ \E s \in Positions(trace, "submit"), w \in Positions(trace, "walletFulfilled") :
            s < w /\ w < k
       /\ request.val.id # "" => trace[k].a = request.val.id
       /\ trace[k].b = IF tx.method = "solana_signAndSendTransaction"
                         THEN trace[k].a ELSE ""

\* a Solana transfer reported sent for an answer that holds a signature field
C3_Witness ==
  /\ Positions(trace, "sent") # {}
  /\ tx.method = "solana_signAndSendTransaction"
  /\ request.val = [kind |-> "object", id |-> "SIG"]

\* C4: a signing request is submitted only after the sender account and the
\* recipient were resolved, encoding started after both and finished before
\* the submission, and the payload holds the resolved sender and recipient.
C4_ResolveEncodeSubmit ==
  \A k \in Positions(trace, "submit") :
    /\ \E a \in Positions(trace, "accountResolved"),
          r \in Positions(trace, "recipientResolved"),
          s \in Positions(trace, "encodeStart"),
          e \in Positions(trace, "encoded") :
         a < s /\ r < s /\ s < e /\ e < k
    /\ from # Null /\ resolvedTo # Null
    /\ from = parseAccount(requireAccount(session, chain)).address
    /\ tx.from = from
    /\ tx.rcpt = resolvedTo

\* an EVM transfer to a name was submitted
C4_Witness ==
  /\ Submitted
  /\ args.to = EnsName
  /\ tx.method = "eth_sendTransaction"

\* C5 as stated: no exception raised at or after the submission leaves cmdSendTx
C5_NothingPropagates == ~(Submitted /\ pc = "threw")

\* C5, amended: an exception raised from the submission up to the formatting of
\* the result is reported as rejected with its message and does not leave
\* cmdSendTx; only a failure of transportClose leaves it.
C5_SubmitExceptionsRejected ==
  Submitted =>
    /\ pc = "threw" => err = CloseMsg /\ trace[Len(trace)] = Net("transportClose")
    /\ (PastTry /\ race.state = "rejected") =>
         \E k \in Positions(trace, "rejected") : trace[k].a = race.val.id
    /\ (PastTry /\ race.state = "fulfilled" /\ race.val.kind = "null") =>
         \E k \in Positions(trace, "rejected") : trace[k].a = NullResultMsg

\* the wallet declined and the run reported it
C5_Witness ==
  /\ pc = "returned"
  /\ race = [state |-> "rejected", val |-> Error(UserRejectedMsg)]
  /\ \E k \in Positions(trace, "rejected") : trace[k].a = UserRejectedMsg

\* C6 as stated: a rejected result is emitted only after a signing request was
\* submitted to the wallet.
C6_RejectedOnlyAfterSubmit ==
  \A k \in Positions(trace, "rejected") :
    \E s \in Positions(trace, "submit") : s < k

PreconditionMsgs ==
  {NoSessionMsg, NoEvmAccountMsg, NoSolAccountMsg, NoRpcMsg, NoTokenMsg}

\* C7 as stated: no network call precedes the report of a precondition failure.
C7_FailFast ==
  \A k \in Positions(trace, "error") :
    trace[k].a \in PreconditionMsgs =>
      \A n \in Positions(trace, "net") : k < n

----------------------------------------------------------------------------
(* findAccount and parseAccount as operations of their own *)

\* longest account list passed to findAccount
MaxAccounts == 2
\* how often findAccount is called on one input
MaxCalls == 2
\* most colon-delimited segments of an account string passed to parseAccount
MaxSegments == 4

AccountPool == {Acct1, Acct10, Acct137, Acct56, AcctSol}
AccountLists == UNION {[1..n -> AccountPool] : n \in 0..MaxAccounts}
Hints == {Null, eip155, solana, Eip155_1, Eip155_10, Eip155_56, SolanaMainnet,
          <<"e", "i", "p">>, <<"c", "o", "s", "m", "o", "s">>}
Segments == {eip155, <<"1">>, AddrA}
AccountStrings == {Join(p) : p \in UNION {[1..n -> Segments] : n \in 1..MaxSegments}}

InitSendIdle ==
  /\ args = [topic |-> "", chain |-> Null, to |-> Null, token |-> "", amount |-> Null]
  /\ session = [exists |-> FALSE, accounts |-> <<>>]
  /\ pc = "idle"
  /\ chain = Null
  /\ from = Null
  /\ resolvedTo = Null
  /\ instructions = <<>>
  /\ tx = NoTx
  /\ err = ""
  /\ request = [state |-> "idle", val |-> NoVal]
  /\ race = IdleRace
  /\ pollTimer = "off"
  /\ timeoutTimer = "off"
  /\ settled = <<>>
  /\ trace = <<>>

InitFind ==
  /\ acctList \in AccountLists
  /\ hint \in Hints
  /\ found = <<>>
  /\ InitSendIdle
  /\ InitParseIdle
  /\ InitFeeIdle
  /\ InitRegistryIdle
  /\ InitLaterIdle

\* a call findAccount(accounts, chainHint)
FindAccountCall ==
  /\ Len(found) < MaxCalls
  /\ found' = Append(found, findAccount(acctList, hint))
  /\ UNCHANGED <<acctList, hint, sendVars, parseVars, feeVars, regVars, laterVars>>

FindNext == FindAccountCall

SpecFind == InitFind /\ [][FindNext]_vars

InitParse ==
  /\ parseIn \in AccountStrings
  /\ parseOut = [called |-> FALSE, result |-> parseAccount(Null)]
  /\ InitSendIdle
  /\ InitFindIdle
  /\ InitFeeIdle
  /\ InitRegistryIdle
  /\ InitLaterIdle

\* a call parseAccount(accountStr)
ParseAccountCall ==
  /\ ~parseOut.called
  /\ parseOut' = [called |-> TRUE, result |-> parseAccount(parseIn)]
  /\ UNCHANGED <<parseIn, sendVars, findVars, feeVars, regVars, laterVars>>

ParseNext == ParseAccountCall

SpecParse == InitParse /\ [][ParseNext]_vars

\* the hint is a full chain id namespace:reference
IsFullChainId(h) ==
  /\ Len(Split(h)) = 2
  /\ Split(h)[1] # <<>>
  /\ Split(h)[2] # <<>>

\* the hint is a namespace alone
IsNamespaceOnly(h) == h # Null /\ IndexOfColon(h, 1) = 0

\* namespace and reference of an account string: its first two segments
NamespaceOf(a) == Split(a)[1]
ReferenceOf(a) == Split(a)[2]

\* C8 as stated: for a full chain id, findAccount returns only an account of
\* exactly that namespace and reference, and null when the list has none.
C8_ExactChainMatch ==
  \A i \in DOMAIN found :
    IsFullChainId(hint) =>
      /\ found[i] # Null =>
           /\ found[i] \in Range(acctList)
           /\ NamespaceOf(found[i]) = Split(hint)[1]
           /\ ReferenceOf(found[i]) = Split(hint)[2]
      /\ (\A a \in Range(acctList) :
            ~(NamespaceOf(a) = Split(hint)[1] /\ ReferenceOf(a) = Split(hint)[2]))
           => found[i] = Null

\* C9 as stated: no hint selects the first account; a namespace selects the
\* first account of that namespace; a hint whose namespace no account has
\* selects null; equal inputs give equal results.
C9_PureSelection ==
  \A i \in DOMAIN found :
    /\ hint = Null => found[i] = At(acctList, 1)
    /\ IsNamespaceOnly(hint) =>
         found[i] = FindFirst(acctList, {a \in Range(acctList) : NamespaceOf(a) = hint})
    /\ (hint # Null /\ \A a \in Range(acctList) : NamespaceOf(a) # Split(hint)[1])
         => found[i] = Null
    /\ found[i] = found[1]

\* C10 as stated: an account string of three or more segments parses into its
\* first segment, its second segment and all that follows the second colon,
\* and joining the three parts gives the string back.
C10_RoundTrip ==
  (parseOut.called /\ Len(Split(parseIn)) >= 3) =>
    LET parts == Split(parseIn)
        r == parseOut.result
    IN /\ r.namespace = parts[1]
       /\ r.reference = parts[2]
       /\ r.address = Join(SubSeq(parts, 3, Len(parts)))
       /\ r.chainId = parts[1] \o COLON \o parts[2]
       /\ Join(<<r.namespace, r.reference, r.address>>) = parseIn

\* the account string lacks one of namespace, reference and address
IsMalformed(accountStr) == Len(Split(accountStr)) < 3

\* C11 as stated: parseAccount returns no result for an account string of fewer
\* than three colon-delimited segments.
C11_MalformedFails == ~(parseOut.called /\ IsMalformed(parseIn))

----------------------------------------------------------------------------
(* The priority-fee step and the token registry as operations of their own *)

\* longest list of fees getRecentPrioritizationFees answers with
MaxFees == 3
\* the prioritization fees a slot can report
FeeLevels == 0..3

FeeLists == UNION {[1..n -> FeeLevels] : n \in 0..MaxFees}
FeeInputs == {[failed |-> FALSE, fees |-> f] : f \in FeeLists}
               \cup {[failed |-> TRUE, fees |-> <<>>]}

InitFees ==
  /\ feeIn \in FeeInputs
  /\ feeOut = [called |-> FALSE, instrs |-> <<>>]
  /\ InitSendIdle
  /\ InitFindIdle
  /\ InitParseIdle
  /\ InitRegistryIdle
  /\ InitLaterIdle

\* lines 219-231 applied to a list that holds the transfer instruction
PriorityFeeCall ==
  /\ ~feeOut.called
  /\ feeOut' = [called |-> TRUE,
                instrs |-> WithPriorityFee(feeIn,
                             <<Instruction("SystemProgram.transfer", Null, <<>>, 0)>>)]
  /\ UNCHANGED <<feeIn, sendVars, findVars, parseVars, regVars, laterVars>>

FeesNext == PriorityFeeCall

SpecFees == InitFees /\ [][FeesNext]_vars

RegistrySymbols == {"USDC", "USDT", "WETH", "DAI", "WBTC", "FOO", ""}
RegistryChains == {Eip155_1, Eip155_10, Eip155_56, Eip155_137, Eip155_8453,
                   Eip155_42161, SolanaMainnet, SolanaDev}

InitRegistry ==
  /\ regIn \in [symbol : RegistrySymbols, chainId : RegistryChains]
  /\ regOut = [calls |-> {}, address |-> Null, decimals |-> 0, isSpl |-> FALSE,
               tokens |-> <<>>]
  /\ InitSendIdle
  /\ InitFindIdle
  /\ InitParseIdle
  /\ InitFeeIdle
  /\ InitLaterIdle

registryFrame == <<regIn, sendVars, findVars, parseVars, feeVars, laterVars>>

GetTokenAddressCall ==
  /\ "getTokenAddress" \notin regOut.calls
  /\ regOut' = [regOut EXCEPT !.calls = @ \cup {"getTokenAddress"},
                              !.address = getTokenAddress(regIn.symbol, regIn.chainId)]
  /\ UNCHANGED registryFrame

GetTokenDecimalsCall ==
  /\ "getTokenDecimals" \notin regOut.calls
  /\ regOut' = [regOut EXCEPT !.calls = @ \cup {"getTokenDecimals"},
                              !.decimals = getTokenDecimals(regIn.symbol)]
  /\ UNCHANGED registryFrame

IsSplTokenCall ==
  /\ "isSplToken" \notin regOut.calls
  /\ regOut' = [regOut EXCEPT !.calls = @ \cup {"isSplToken"},
                              !.isSpl = isSplToken(regIn.symbol, regIn.chainId)]
  /\ UNCHANGED registryFrame

GetTokensForChainCall ==
  /\ "getTokensForChain" \notin regOut.calls
  /\ regOut' = [regOut EXCEPT !.calls = @ \cup {"getTokensForChain"},
                              !.tokens = getTokensForChain(regIn.chainId)]
  /\ UNCHANGED registryFrame

RegistryNext ==
  \/ GetTokenAddressCall
  \/ GetTokenDecimalsCall
  \/ IsSplTokenCall
  \/ GetTokensForChainCall

SpecRegistry == InitRegistry /\ [][RegistryNext]_vars

----------------------------------------------------------------------------
(* Properties of the encoders *)

HexDigitValue(c) == (CHOOSE d \in DOMAIN HexDigits : HexDigits[d] = c) - 1

\* the number a string of hexadecimal digits writes: three of them make one
\* digit to the base Base
FromHex(str) ==
  LET padded == [i \in 1..((3 - (Len(str) % 3)) % 3) |-> "0"] \o str
  IN StripZeros([i \in 1..(Len(padded) \div 3) |->
                   256 * HexDigitValue(padded[3 * i - 2])
                     + 16 * HexDigitValue(padded[3 * i - 1])
                     + HexDigitValue(padded[3 * i])])

\* the integer nearest to amount * 10^decimals, in exact decimal arithmetic
ExactBaseUnits(amount, decimals) ==
  LET p == DecimalPrefix(amount)
      n == FromDecimal(p.digits)
      d == DivMod(DivPow10(n, p.fraction - decimals - 1).q, 10)
  IN IF p.fraction <= decimals THEN MulPow10(n, decimals - p.fraction)
     ELSE IF d.r >= 5 THEN Inc(d.q) ELSE d.q

\* the transfer the run asks for is a native one
WantsNative == args.token = "" \/ args.token = NativeSymbol(chain)

Ops(instrs) == {instrs[i].op : i \in DOMAIN instrs}
OpPositions(instrs, op) == {i \in DOMAIN instrs : instrs[i].op = op}

\* C12 as stated: the payload is a native transfer exactly when the symbol is
\* absent or is the native symbol of the target chain; a native symbol is
\* never refused as an unsupported token.
C12_NativeIffNativeSymbol ==
  /\ tx.method = "eth_sendTransaction" => (tx.kind = "value" <=> WantsNative)
  /\ (chain # Null /\ instructions # <<>>) =>
       ("SystemProgram.transfer" \in Ops(instructions) <=> WantsNative)
  /\ \A k \in Positions(trace, "error") : trace[k].a = NoTokenMsg => ~WantsNative

\* C13 as stated: the data of an ERC-20 transfer to a 0x address is the
\* selector, the resolved recipient padded with zeros to 32 bytes and the
\* base-unit amount padded to 32 bytes; the payload goes to the token contract
\* and has no value.
C13_Erc20Payload ==
  (tx.kind = "data" /\ StartsWith(resolvedTo, <<"0", "x">>)) =>
    LET addr == SubSeq(resolvedTo, 3, Len(resolvedTo))
        toWord == SubSeq(tx.data, 11, 74)
        amountWord == SubSeq(tx.data, 75, 138)
    IN /\ Len(tx.data) = 2 + 2 * (4 + 32 + 32)
       /\ SubSeq(tx.data, 1, 10) = Selector
       /\ SubSeq(toWord, 64 - Len(addr) + 1, 64) = addr
       /\ \A i \in 1..(64 - Len(addr)) : toWord[i] = "0"
       /\ FromHex(amountWord) = ExactBaseUnits(args.amount, getTokenDecimals(args.token))
       /\ tx.to = getTokenAddress(args.token, chain)
       /\ tx.to # resolvedTo
       /\ tx.value = Null

\* C14 as stated: the value of a native EVM transfer is the hexadecimal form
\* of the integer nearest to amount * 10^18; the payload goes from the sender's
\* address to the resolved recipient and has no data.
C14_NativeValue ==
  tx.kind = "value" =>
    /\ SubSeq(tx.value, 1, 2) = <<"0", "x">>
    /\ FromHex(SubSeq(tx.value, 3, Len(tx.value)))
         = ExactBaseUnits(OrZero(args.amount), 18)
    /\ tx.to = resolvedTo
    /\ tx.from = parseAccount(requireAccount(session, chain)).address
    /\ tx.data = Null

\* C15 as stated: when the symbol is not the chain's native one and has no
\* address on the chain, no signing request is submitted and a run that gets
\* to the encoder ends with the unsupported-token error.
C15_UnsupportedTokenNeverSubmitted ==
  (chain # Null /\ ~WantsNative /\ getTokenAddress(args.token, chain) = Null) =>
    /\ ~Submitted
    /\ (PastTry /\ Positions(trace, "recipientResolved") # {}) =>
         \E k \in Positions(trace, "error") : trace[k].a = NoTokenMsg

\* C16: a submitted Solana token transfer creates the recipient's associated
\* token account exactly when getAccountInfo answered that there is none; the
\* creation is paid by the sender and precedes the transfer instruction.
C16_AtaCreatedIffMissing ==
  (Submitted /\ "createTransfer" \in Ops(tx.instrs)) =>
    LET created == OpPositions(tx.instrs, "createAssociatedTokenAccount")
        missing == \E k \in Positions(trace, "probe") : trace[k].a = "null"
    IN /\ created # {} <=> missing
       /\ Cardinality(created) <= 1
       /\ Cardinality(OpPositions(tx.instrs, "createTransfer")) = 1
       /\ \A c \in created :
            /\ tx.instrs[c].payer = parseAccount(requireAccount(session, chain)).address
            /\ \A t \in OpPositions(tx.instrs, "createTransfer") : c < t

\* a token transfer to a recipient without a token account, with a priority fee
C16_Witness ==
  /\ Submitted
  /\ "setComputeUnitPrice" \in Ops(tx.instrs)
  /\ "createAssociatedTokenAccount" \in Ops(tx.instrs)
  /\ "createTransfer" \in Ops(tx.instrs)

FeesFailed == \E k \in Positions(trace, "fees") : trace[k].a = "error"

\* C18: a failure of getRecentPrioritizationFees fails nothing: the
\* instruction list gets no compute-unit price, the run goes on to fetch the
\* block hash, and a rejection after it follows that fetch.
C18_FeeFailureTolerated ==
  FeesFailed =>
    /\ "setComputeUnitPrice" \notin Ops(instructions)
    /\ pc # "sol:fees"
    /\ pc \in {"sol:blockhash", "sol:submit"} => err = ""
    /\ pc = "sol:submit" => "setComputeUnitPrice" \notin Ops(tx.instrs)
    /\ \A r \in Positions(trace, "rejected") \cup Positions(trace, "error") :
         \E n \in DOMAIN trace : n < r /\ trace[n] = Net("getLatestBlockhash")

\* the fee call failed and the transfer was sent
C18_Witness ==
  /\ FeesFailed
  /\ Positions(trace, "sent") # {}
  /\ tx.method = "solana_signAndSendTransaction"

\* C19 as stated: after a failure of the fee call or of the account probe the
\* run goes on to the next step, the fetch of the block hash.
C19_BestEffortNeverAborts ==
  ((FeesFailed \/ \E k \in Positions(trace, "probe") : trace[k].a = "error")
     /\ pc \notin {"sol:fees", "sol:blockhash"}) =>
    \E n \in DOMAIN trace : trace[n] = Net("getLatestBlockhash")

----------------------------------------------------------------------------
(* Properties of the priority-fee step and of the token registry *)

\* v is what stands at place r (counted from 1) when list is sorted ascending
HasRank(list, v, r) ==
  /\ \E i \in DOMAIN list : list[i] = v
  /\ Cardinality({i \in DOMAIN list : list[i] < v}) < r
  /\ r <= Cardinality({i \in DOMAIN list : list[i] <= v})

PricePositions == OpPositions(feeOut.instrs, "setComputeUnitPrice")

\* C17 as stated: the price is the median of the observed fees, the middle one
\* of an odd count and the lower-middle one of an even count.
C17_LowerMiddleMedian ==
  (feeOut.called /\ ~feeIn.failed /\ Len(feeIn.fees) > 0) =>
    /\ PricePositions # {}
    /\ \A p \in PricePositions :
         HasRank(feeIn.fees, feeOut.instrs[p].microLamports,
                 ((Len(feeIn.fees) - 1) \div 2) + 1)

\* C17, amended: the price is taken from the fees above zero: the middle one of
\* an odd count of them, the upper-middle one of an even count; it is set by
\* the first instruction of the list, and by none when no fee is above zero or
\* the call failed.
C17_UpperMiddleOfPositive ==
  feeOut.called =>
    LET positive == FilterPositive(feeIn.fees)
    IN IF feeIn.failed \/ Len(positive) = 0
         THEN PricePositions = {}
         ELSE /\ PricePositions = {1}
              /\ HasRank(positive, feeOut.instrs[1].microLamports,
                         (Len(positive) \div 2) + 1)
              /\ Len(feeOut.instrs) = 2

\* two fees above zero were observed and the larger one became the price
C17_Witness ==
  /\ feeOut.called
  /\ feeIn = [failed |-> FALSE, fees |-> <<2, 1>>]
  /\ feeOut.instrs[1].microLamports = 2

RegistryEntries ==
  {i \in DOMAIN regOut.tokens : regOut.tokens[i].symbol = regIn.symbol}

\* C20: getTokensForChain lists a symbol exactly when getTokenAddress finds an
\* address for it on the chain, with that address and with the decimals
\* getTokenDecimals gives for the symbol on any chain; an unregistered symbol
\* has 18 decimals; isSplToken holds exactly for a Solana chain on which the
\* symbol has an address.
C20_RegistryConsistent ==
  /\ {"getTokensForChain", "getTokenAddress"} \subseteq regOut.calls =>
       /\ RegistryEntries # {} <=> regOut.address # Null
       /\ Cardinality(RegistryEntries) <= 1
       /\ \A i \in RegistryEntries : regOut.tokens[i].address = regOut.address
  /\ {"getTokensForChain", "getTokenDecimals"} \subseteq regOut.calls =>
       \A i \in RegistryEntries : regOut.tokens[i].decimals = regOut.decimals
  /\ "getTokenDecimals" \in regOut.calls =>
       /\ regIn.symbol \notin Range(TokenSymbols) => regOut.decimals = 18
       /\ regOut.decimals \in {6, 8, 18}
  /\ {"isSplToken", "getTokenAddress"} \subseteq regOut.calls =>
       (regOut.isSpl <=>
          (NamespaceOf(regIn.chainId) = solana /\ regOut.address # Null))

\* all four lookups made for USDC on Solana mainnet
C20_Witness ==
  /\ regIn = [symbol |-> "USDC", chainId |-> SolanaMainnet]
  /\ Cardinality(regOut.calls) = 4
  /\ regOut.isSpl
  /\ RegistryEntries # {}

----------------------------------------------------------------------------
(* Amounts of the swap command: toRaw and fromRaw (src/src/commands/swap.ts) *)

\* x + y
RECURSIVE AddAt(_, _, _, _)
AddAt(x, y, i, carry) ==
  LET xi == IF i <= Len(x) THEN x[Len(x) - i + 1] ELSE 0
      yi == IF i <= Len(y) THEN y[Len(y) - i + 1] ELSE 0
      v == xi + yi + carry
  IN IF i > Len(x) /\ i > Len(y) THEN ToLimbs(carry)
     ELSE Append(AddAt(x, y, i + 1, v \div Base), v % Base)

Add(x, y) == AddAt(x, y, 1, 0)

\* x % 10^k, four decimal digits at a time
RECURSIVE RemPow10(_, _)
RemPow10(x, k) ==
  IF k = 0 THEN <<>>
  ELSE LET step == IF k < 4 THEN k ELSE 4
           d == DivMod(x, 10 ^ step)
       IN StripZeros(MulAdd(RemPow10(d.q, k - step), 10 ^ step, d.r))

\* the four decimal digits of a number below 10000
FourDigits(n) ==
  <<Digits[(n \div 1000) + 1], Digits[((n \div 100) % 10) + 1],
    Digits[((n \div 10) % 10) + 1], Digits[(n % 10) + 1]>>

\* the decimal digits of a number above zero, four at a time
RECURSIVE DecimalDigits(_)
DecimalDigits(x) ==
  LET d == DivMod(x, 10000)
  IN IF Len(d.q) = 0 THEN StripLeading0(FourDigits(d.r))
     ELSE DecimalDigits(d.q) \o FourDigits(d.r)

\* BigInt.prototype.toString()
ToString10(x) == IF Len(x) = 0 THEN <<"0">> ELSE DecimalDigits(x)

\* the number that at most four decimal digits write
SmallDecimal(str) ==
  LET v(i) == IF i <= Len(str) THEN DigitValue(str[i]) * 10 ^ (Len(str) - i) ELSE 0
  IN v(1) + v(2) + v(3) + v(4)

\* BigInt(str) for a string of decimal digits, four of them at a time; the
\* empty string is 0n
RECURSIVE BigIntOf(_)
BigIntOf(str) ==
  IF Len(str) <= 4 THEN ToLimbs(SmallDecimal(str))
  ELSE StripZeros(MulAdd(BigIntOf(SubSeq(str, 1, Len(str) - 4)), 10000,
                         SmallDecimal(SubSeq(str, Len(str) - 3, Len(str)))))

\* position of the first "." of str from i on, 0 when there is none
RECURSIVE IndexOfDot(_, _)
IndexOfDot(str, i) ==
  IF i > Len(str) THEN 0
  ELSE IF str[i] = "." THEN i
  ELSE IndexOfDot(str, i + 1)

\* String.prototype.split("."): the segments between the dots, in order
RECURSIVE SplitDot(_)
SplitDot(str) ==
  LET k == IndexOfDot(str, 1)
  IN IF k = 0 THEN <<str>>
     ELSE <<SubSeq(str, 1, k - 1)>> \o SplitDot(SubSeq(str, k + 1, Len(str)))

\* String.prototype.slice(0, n)
SliceTo(str, n) == SubSeq(str, 1, IF n < Len(str) THEN n ELSE Len(str))

\* String.prototype.replace(/0+$/, "")
RECURSIVE StripTrailing0(_)
StripTrailing0(str) ==
  IF Len(str) = 0 \/ str[Len(str)] # "0" THEN str
  ELSE StripTrailing0(SubSeq(str, 1, Len(str) - 1))

\* lines 64-68; "0".repeat(decimals) is Zeros written in characters
toRaw(amount, decimals) ==
  LET parts == SplitDot(amount)
      whole == parts[1]
      frac == IF Len(parts) >= 2 THEN parts[2] ELSE <<>>
      fracPadded == SliceTo(frac \o [i \in 1..decimals |-> "0"], decimals)
  IN ToString10(Add(MulPow10(BigIntOf(whole), decimals), BigIntOf(fracPadded)))

\* how many digits of the fraction fromRaw keeps (line 79)
FracDigitsKept == 8

\* lines 71-82
fromRaw(raw, decimals) ==
  LET val == BigIntOf(raw)
      whole == DivPow10(val, decimals).q
      frac == RemPow10(val, decimals)
      fracStr == StripTrailing0(SliceTo(PadStart(ToString10(frac), decimals),
                                        FracDigitsKept))
  IN IF fracStr # <<>> THEN ToString10(whole) \o <<".">> \o fracStr
     ELSE ToString10(whole)

\* --amount of swap: an integer part and, after a dot, a fraction
RawWholes == {<<>>, <<"0">>, <<"1">>, <<"1", "2">>}
RawFractions == {<<>>, <<"5">>, <<"0", "5">>, <<"1", "2", "3", "4", "5", "6">>,
                 <<"1", "2", "3", "4", "5", "6", "7">>,
                 <<"0", "0", "0", "0", "0", "0", "0", "0", "1">>,
                 <<"1", "2", "3", "4", "5", "6", "7", "8", "9">>}
RawAmounts == RawWholes \cup {w \o <<".">> \o f : w \in RawWholes, f \in RawFractions}
\* decimals of the native token and of the registered tokens
RawDecimals == {6, 8, 18}

\* the state of the operations modelled apart from the swap amounts
InitCoreIdle ==
  /\ InitSendIdle
  /\ InitFindIdle
  /\ InitParseIdle
  /\ InitFeeIdle
  /\ InitRegistryIdle

InitRaw ==
  /\ rawIn \in [amount : RawAmounts, decimals : RawDecimals]
  /\ rawOut = [calls |-> 0, raw |-> Null, human |-> Null, again |-> Null]
  /\ InitCoreIdle
  /\ InitLookIdle
  /\ InitSignIdle
  /\ InitStoreIdle

\* toRaw(amount, decimals), as on line 146
ToRawCall ==
  /\ rawOut.calls = 0
  /\ rawOut' = [rawOut EXCEPT !.calls = 1,
                              !.raw = toRaw(rawIn.amount, rawIn.decimals)]
  /\ UNCHANGED <<rawIn, coreVars, lookVars, signVars, storeVars>>

\* fromRaw(raw, decimals) of the base units, as on line 215
FromRawCall ==
  /\ rawOut.calls = 1
  /\ rawOut' = [rawOut EXCEPT !.calls = 2,
                              !.human = fromRaw(rawOut.raw, rawIn.decimals)]
  /\ UNCHANGED <<rawIn, coreVars, lookVars, signVars, storeVars>>

\* toRaw of the human form
ToRawAgainCall ==
  /\ rawOut.calls = 2
  /\ rawOut' = [rawOut EXCEPT !.calls = 3,
                              !.again = toRaw(rawOut.human, rawIn.decimals)]
  /\ UNCHANGED <<rawIn, coreVars, lookVars, signVars, storeVars>>

RawNext ==
  \/ ToRawCall
  \/ FromRawCall
  \/ ToRawAgainCall

SpecRaw == InitRaw /\ [][RawNext]_vars

----------------------------------------------------------------------------
(* Session lookup by address: findSessionByAddress (src/src/client.ts) and *)
(* resolveAddress (src/src/cli.ts)                                         *)

UpperCase == <<"A", "B", "C", "D", "E", "F", "G", "H", "I", "J", "K", "L", "M",
               "N", "O", "P", "Q", "R", "S", "T", "U", "V", "W", "X", "Y", "Z">>
LowerCase == <<"a", "b", "c", "d", "e", "f", "g", "h", "i", "j", "k", "l", "m",
               "n", "o", "p", "q", "r", "s", "t", "u", "v", "w", "x", "y", "z">>

\* String.prototype.toLowerCase
toLowerCase(str) ==
  [i \in DOMAIN str |->
     IF \E k \in DOMAIN UpperCase : UpperCase[k] = str[i]
       THEN LowerCase[CHOOSE k \in DOMAIN UpperCase : UpperCase[k] = str[i]]
       ELSE str[i]]

\* lines 33-34: acct.split(":").slice(2).join(":")
AddressPart(acct) ==
  LET parts == Split(acct)
  IN IF Len(parts) < 3 THEN <<>> ELSE Join(SubSeq(parts, 3, Len(parts)))

\* lines 32-36: some account of the session has the address, whatever the case
hasMatch(sessionEntry, needle) ==
  \E i \in DOMAIN sessionEntry.accounts :
    toLowerCase(AddressPart(sessionEntry.accounts[i])) = needle

\* session.updatedAt || session.createdAt || "": a time stamp is a number
\* above zero, an absent one is 0
StampOf(sessionEntry) ==
  IF sessionEntry.updatedAt # 0 THEN sessionEntry.updatedAt ELSE sessionEntry.createdAt

\* the comparator of lines 42-46 puts a after b: b's stamp compares above a's
ComesAfterOlderFirst(a, b) == StampOf(b) < StampOf(a)
ComesAfter(a, b) == StampOf(b) > StampOf(a)

\* lines 31-40: the entries of the registry that have the address, in the order
\* of Object.entries
RECURSIVE MatchesOf(_, _)
MatchesOf(entries, needle) ==
  IF Len(entries) = 0 THEN <<>>
  ELSE (IF hasMatch(Head(entries), needle) THEN <<Head(entries)>> ELSE <<>>)
       \o MatchesOf(Tail(entries), needle)

\* x put into a sorted list behind every element it does not come before
RECURSIVE InsertEntry(_, _)
InsertEntry(x, sorted) ==
  IF Len(sorted) = 0 THEN <<x>>
  ELSE IF ComesAfter(Head(sorted), x) THEN <<x>> \o sorted
  ELSE <<Head(sorted)>> \o InsertEntry(x, Tail(sorted))

\* Array.prototype.sort with the comparator of lines 42-46; the sort is stable
RECURSIVE SortEntries(_)
SortEntries(list) ==
  IF Len(list) = 0 THEN <<>>
  ELSE InsertEntry(list[Len(list)], SortEntries(SubSeq(list, 1, Len(list) - 1)))

\* lines 25-48
findSessionByAddress(sessions, address) ==
  LET matches == MatchesOf(sessions, toLowerCase(address))
  IN IF Len(matches) = 0 THEN Null ELSE SortEntries(matches)[1]

\* most sessions the registry holds in a lookup
MaxSessions == 2
\* the time stamps of the sessions
Stamps == 1..2

LookupTopics == <<"T1", "T2", "T3">>
LookupAccounts == {<<Acct1>>, <<Eip155_1 \o COLON \o <<"0", "x", "a">>, AcctSol>>,
                   <<Acct10>>}
LookupEntries(n) ==
  {f \in [1..n -> [topic : Range(LookupTopics), accounts : LookupAccounts,
                   updatedAt : {0} \cup Stamps, createdAt : Stamps]] :
     \A i \in 1..n : f[i].topic = LookupTopics[i]}
LookupAddresses == {Null, AddrA, <<"0", "X", "a">>, AddrC}

InitLookup ==
  /\ lookIn \in [sessions : UNION {LookupEntries(n) : n \in 0..MaxSessions},
                 address : LookupAddresses, topic : {"", "T9"}]
  /\ lookOut = [calls |-> {}, match |-> Null, topic |-> "", exited |-> FALSE]
  /\ InitCoreIdle
  /\ InitRawIdle
  /\ InitSignIdle
  /\ InitStoreIdle

\* a call findSessionByAddress(sessions, address)
FindSessionCall ==
  /\ "findSessionByAddress" \notin lookOut.calls
  /\ lookIn.address # Null
  /\ lookOut' = [lookOut EXCEPT !.calls = @ \cup {"findSessionByAddress"},
                                !.match = findSessionByAddress(lookIn.sessions,
                                                               lookIn.address)]
  /\ UNCHANGED <<lookIn, coreVars, rawVars, signVars, storeVars>>

\* cli.ts 41-54: resolveAddress(args) fills args.topic from --address when no
\* --topic is given, and exits when no session has the address
ResolveAddressCall ==
  /\ "resolveAddress" \notin lookOut.calls
  /\ LET match == findSessionByAddress(lookIn.sessions, lookIn.address)
     IN lookOut' =
          [lookOut EXCEPT
             !.calls = @ \cup {"resolveAddress"},
             !.exited = lookIn.address # Null /\ lookIn.topic = "" /\ match = Null,
             !.topic = IF lookIn.address # Null /\ lookIn.topic = "" /\ match # Null
                         THEN match.topic ELSE lookIn.topic]
  /\ UNCHANGED <<lookIn, coreVars, rawVars, signVars, storeVars>>

LookupNext ==
  \/ FindSessionCall
  \/ ResolveAddressCall

SpecLookup == InitLookup /\ [][LookupNext]_vars

----------------------------------------------------------------------------
(* The sign command: cmdSign (src/src/commands/tokens.ts 103-156) *)

\* a || b for strings and null
OrElse(a, b) == IF a # Null THEN a ELSE b

\* lines 114-116
solAccountOf(accounts, chainHint) ==
  OrElse(findAccount(accounts, IF StartsWith(chainHint, solana) THEN chainHint ELSE Null),
         IF chainHint = Null THEN findAccount(accounts, solana) ELSE Null)

\* lines 117-119
evmAccountOf(accounts, chainHint) ==
  OrElse(findAccount(accounts, IF StartsWith(chainHint, eip155) THEN chainHint ELSE Null),
         IF chainHint = Null THEN findAccount(accounts, eip155) ELSE Null)

\* line 121
useSolanaOf(accounts, chainHint) ==
  \/ (chainHint # Null /\ StartsWith(chainHint, solana))
  \/ (chainHint = Null /\ evmAccountOf(accounts, chainHint) = Null
        /\ solAccountOf(accounts, chainHint) # Null)

InitSign ==
  /\ signIn \in [accounts : AccountLists, chain : Hints]
  /\ signOut = NoSignOut
  /\ InitCoreIdle
  /\ InitRawIdle
  /\ InitLookIdle
  /\ InitStoreIdle

\* lines 112-127: the account the message is signed with, or the exit with
\* "No supported account found"
SignSelectAccount ==
  /\ signOut.step = "start"
  /\ LET useSolana == useSolanaOf(signIn.accounts, signIn.chain)
         account == IF useSolana THEN solAccountOf(signIn.accounts, signIn.chain)
                    ELSE evmAccountOf(signIn.accounts, signIn.chain)
     IN signOut' = [signOut EXCEPT !.step = IF account = Null THEN "exited" ELSE "selected",
                                   !.useSolana = useSolana,
                                   !.account = account]
  /\ UNCHANGED <<signIn, coreVars, rawVars, lookVars, storeVars>>

\* lines 129-152: the signing request handed to requestWithTimeout
SignRequest ==
  /\ signOut.step = "selected"
  /\ signOut' = [signOut EXCEPT
                   !.step = "requested",
                   !.method = IF signOut.useSolana THEN "solana_signMessage"
                              ELSE "personal_sign",
                   !.chainId = parseAccount(signOut.account).chainId,
                   !.address = parseAccount(signOut.account).address]
  /\ UNCHANGED <<signIn, coreVars, rawVars, lookVars, storeVars>>

SignNext ==
  \/ SignSelectAccount
  \/ SignRequest

SpecSign == InitSign /\ [][SignNext]_vars

----------------------------------------------------------------------------
(* The session registry: pair, auth, health, delete-session and the readers *)

\* the account lists a wallet approves a pairing with
StoreAccounts == {<<AcctSol, Acct10>>, <<AcctSol>>}
PeerName == "Wallet"
\* the last reading of the clock at which a command may start to write
MaxClock == 3

\* storage.ts 12-19: the contents of sessions.json
loadSessions == registry

\* storage.ts 26-30: the sessions read again, with data stamped and stored
\* under the topic
saveSessionAlone(sessions, topic, data, now) ==
  [t \in StoreTopics |->
     IF t = topic THEN [data EXCEPT !.present = TRUE, !.updatedAt = now]
     ELSE NoSession]
saveSession(sessions, topic, data, now) ==
  [sessions EXCEPT ![topic] = [data EXCEPT !.present = TRUE, !.updatedAt = now]]

\* Object.keys(sessions); the keys are kept in the order the relay issued them
KeysOf(sessions) == SelectSeq(TopicOrder, LAMBDA t : sessions[t].present)

\* Object.entries(sessions), as findSessionByAddress reads them
EntriesOf(sessions) ==
  LET keys == KeysOf(sessions)
  IN [i \in DOMAIN keys |->
        [topic |-> keys[i], accounts |-> sessions[keys[i]].accounts,
         updatedAt |-> sessions[keys[i]].updatedAt,
         createdAt |-> sessions[keys[i]].createdAt]]

\* the --topic and --address a command is called with
StoreArgs == [topic : {""} \cup StoreTopics, address : {Null}]
               \cup [topic : {""}, address : {AddrB}]

\* sessions.ts 134-147 and cli.ts 41-54: args.topic after resolveAddress(args),
\* with exited when no session has the address
resolveAddress(sessions, argv) ==
  IF argv.address # Null /\ argv.topic = ""
    THEN LET match == findSessionByAddress(EntriesOf(sessions), argv.address)
         IN IF match = Null THEN [exited |-> TRUE, topic |-> ""]
            ELSE [exited |-> FALSE, topic |-> match.topic]
    ELSE [exited |-> FALSE, topic |-> argv.topic]

InitStore ==
  /\ InitStoreIdle
  /\ InitCoreIdle
  /\ InitRawIdle
  /\ InitLookIdle
  /\ InitSignIdle

storeFrame == UNCHANGED <<coreVars, rawVars, lookVars, signVars>>

\* swap.ts 258-317: cmdPair; the wallet approves with its accounts or rejects
Pair ==
  /\ issued < Len(TopicOrder)
  /\ clock < MaxClock
  /\ \E accounts \in StoreAccounts, approved \in BOOLEAN :
       IF approved
         THEN LET topic == TopicOrder[issued + 1]
              IN /\ registry' = saveSession(loadSessions, topic,
                                            [NoSession EXCEPT
                                               !.accounts = accounts,
                                               !.peerName = PeerName,
                                               !.createdAt = clock],
                                            clock)
                 /\ issued' = issued + 1
                 /\ clock' = clock + 1
                 /\ out' = "paired"
         ELSE /\ out' = "rejected"
              /\ UNCHANGED <<registry, issued, clock>>
  /\ UNCHANGED <<auth, health, deleted>>
  /\ storeFrame

\* the account cmdAuth asks to sign (line 26)
AuthAccountFirst(sessionData) == requireAccount(sessionData, Null)
AuthAccount(sessionData) == requireAccount(sessionData, eip155)

\* auth.ts 18-51: the session is read and the signing request is sent
AuthStart ==
  /\ auth.pc \in {"idle", "done"}
  /\ clock < MaxClock
  /\ \E topic \in {""} \cup StoreTopics :
       LET sessionData == IF topic = "" THEN NoSession ELSE loadSessions[topic]
           evmAccountStr == AuthAccount(sessionData)
       IN IF topic = "" \/ ~sessionData.present \/ evmAccountStr = Null
            THEN /\ auth' = [NoAuth EXCEPT !.pc = "done"]
                 /\ out' = "error"
            ELSE /\ auth' = [pc |-> "await", topic |-> topic,
                             sessionData |-> sessionData,
                             address |-> parseAccount(evmAccountStr).address,
                             writes |-> 0]
                 /\ UNCHANGED out
  /\ UNCHANGED <<registry, clock, issued, health, deleted>>
  /\ storeFrame

\* auth.ts 44-71: the wallet returns the signature
AuthSigned ==
  /\ auth.pc = "await"
  /\ registry' = saveSession(loadSessions, auth.topic,
                             [auth.sessionData EXCEPT
                                !.authenticated = TRUE,
                                !.authAddress = auth.address,
                                !.authSignature = "signature"],
                             clock)
  /\ clock' = clock + 1
  /\ auth' = [auth EXCEPT !.pc = "close", !.writes = @ + 1]
  /\ out' = "authenticated"
  /\ UNCHANGED <<issued, health, deleted>>
  /\ storeFrame

\* auth.ts 44-51, 72-74: the wallet rejects the request, or it times out
AuthRejected ==
  /\ auth.pc = "await"
  /\ auth' = [auth EXCEPT !.pc = "close"]
  /\ out' = "rejected"
  /\ UNCHANGED <<registry, clock, issued, health, deleted>>
  /\ storeFrame

\* auth.ts 75: the transport is closed and the invocation ends
AuthClose ==
  /\ auth.pc = "close"
  /\ auth' = [NoAuth EXCEPT !.pc = "done", !.writes = auth.writes]
  /\ UNCHANGED <<registry, clock, issued, health, deleted, out>>
  /\ storeFrame

HealthArgs == {a \in [all : BOOLEAN, topic : {""} \cup StoreTopics,
                     address : {Null, AddrB}, clean : BOOLEAN] :
                 a.topic # "" => ~a.all /\ a.address = Null}

\* health.ts 34-61: the topics to ping, Null when the command exits
HealthTopics(sessions, argv) ==
  IF argv.all
    THEN (IF KeysOf(sessions) = <<>> THEN Null ELSE KeysOf(sessions))
  ELSE IF argv.topic # ""
    THEN (IF ~sessions[argv.topic].present THEN Null ELSE <<argv.topic>>)
  ELSE IF argv.address # Null
    THEN LET match == findSessionByAddress(EntriesOf(sessions), argv.address)
         IN IF match = Null THEN Null ELSE <<match.topic>>
  ELSE Null

\* health.ts 31-66: the sessions are read once and the topics chosen
HealthStart ==
  /\ health.pc \in {"idle", "done"}
  /\ \E argv \in HealthArgs :
       LET sessions == loadSessions
           topics == HealthTopics(sessions, argv)
       IN IF topics = Null
            THEN /\ health' = [NoHealth EXCEPT !.pc = "done"]
                 /\ out' = IF argv.all THEN "no_sessions" ELSE "error"
            ELSE /\ health' = [pc |-> "ping", sessions |-> sessions,
                               topics |-> topics, pinged |-> 0,
                               deadTopics |-> <<>>, clean |-> argv.clean]
                 /\ UNCHANGED out
  /\ UNCHANGED <<registry, clock, issued, auth, deleted>>
  /\ storeFrame

\* health.ts 68-96: one ping is answered, fails or times out
HealthPing ==
  /\ health.pc = "ping"
  /\ health.pinged < Len(health.topics)
  /\ \E alive \in BOOLEAN :
       LET topic == health.topics[health.pinged + 1]
       IN health' = [health EXCEPT
                       !.pinged = @ + 1,
                       !.deadTopics = IF alive THEN @ ELSE Append(@, topic)]
  /\ UNCHANGED <<registry, clock, issued, auth, deleted, out>>
  /\ storeFrame

\* health.ts 100-103: { ...sessions } without the dead topics
WithoutTopics(sessions, deadTopics) ==
  [t \in StoreTopics |-> IF t \in Range(deadTopics) THEN NoSession ELSE sessions[t]]

\* health.ts 98-117: the clean-up write, the report and the end of the invocation
HealthFinish ==
  /\ health.pc = "ping"
  /\ health.pinged = Len(health.topics)
  /\ IF health.clean /\ health.deadTopics # <<>>
       THEN registry' = WithoutTopics(health.sessions, health.deadTopics)
       ELSE UNCHANGED registry
  /\ out' = "checked"
  /\ health' = [NoHealth EXCEPT !.pc = "done"]
  /\ UNCHANGED <<clock, issued, auth, deleted>>
  /\ storeFrame

\* sessions.ts 246-261: cmdDeleteSession called with argv
DeleteSessionWith(argv) ==
  /\ LET resolved == resolveAddress(loadSessions, argv)
         sessions == loadSessions
     IN IF resolved.exited \/ resolved.topic = ""
          THEN /\ out' = "error"
               /\ UNCHANGED <<registry, deleted>>
        ELSE IF ~sessions[resolved.topic].present
          THEN /\ out' = "not_found"
               /\ UNCHANGED <<registry, deleted>>
        ELSE /\ registry' = [sessions EXCEPT ![resolved.topic] = NoSession]
             /\ deleted' = deleted \cup {resolved.topic}
             /\ out' = "deleted"
  /\ UNCHANGED <<clock, issued, auth, health>>
  /\ storeFrame

DeleteSession == \E argv \in StoreArgs : DeleteSessionWith(argv)

\* resolveAddress, loadSessions and requireSession (or sessions[args.topic]) of
\* send-tx, sign, sign-typed-data, balance, status and whoami, none of which
\* calls saveSession or saveSessions
ReadSession ==
  /\ \E argv \in StoreArgs :
       LET resolved == resolveAddress(loadSessions, argv)
       IN out' = IF resolved.exited \/ resolved.topic = "" THEN "error"
                 ELSE IF ~loadSessions[resolved.topic].present THEN "not_found"
                 ELSE "found"
  /\ UNCHANGED <<registry, clock, issued, auth, health, deleted>>
  /\ storeFrame

StoreNext ==
  \/ Pair
  \/ AuthStart
  \/ AuthSigned
  \/ AuthRejected
  \/ AuthClose
  \/ HealthStart
  \/ HealthPing
  \/ HealthFinish
  \/ DeleteSession
  \/ ReadSession

SpecStore == InitStore /\ [][StoreNext]_vars

----------------------------------------------------------------------------
(* Properties of the address resolver, the gateway's timers and the amount *)

Lookups == {k \in Positions(trace, "net") : trace[k].a = "getEnsAddress"}
\* the name service answered that the name has no address
NameUnregistered == \E k \in Lookups : trace[k].b = "null"

\* C21: a recipient without the name-service suffix is resolved to itself and
\* no lookup is made; a name the service has no address for fails the run with
\* the name-resolution error, reported once the run is past its try block, and
\* no signing request is submitted in that run.
C21_PassThroughOrFail ==
  /\ (args.to # Null /\ ~EndsWith(args.to, EnsSuffix)) =>
       /\ Lookups = {}
       /\ (tx.method = "eth_sendTransaction" \/ pc = "evm:encode") => resolvedTo = args.to
  /\ NameUnregistered =>
       /\ ~Submitted
       /\ tx = NoTx
       /\ pc = "catch" => err = EnsMsg
       /\ PastTry => \E k \in Positions(trace, "rejected") : trace[k].a = EnsMsg

\* a transfer to a name without an address ended, reported with that error
C21_Witness ==
  /\ NameUnregistered
  /\ pc = "returned"
  /\ \E k \in Positions(trace, "rejected") : trace[k].a = EnsMsg

\* requestWithTimeout returned or threw because the wallet answered first
WalletSettledFirst == Len(settled) = 1 /\ ~TimedOut

\* C26 as stated: once requestWithTimeout has returned or thrown on the
\* wallet's answer, neither the interval timer nor the deadline timer of the
\* call is armed.
C26_NoTimerLeftArmed ==
  WalletSettledFirst => (pollTimer # "armed" /\ timeoutTimer # "armed")

\* the amount of the run is given and is a number above zero
AmountIsPositive ==
  /\ args.amount # Null
  /\ ~IsNaN(args.amount)
  /\ parseFloat(args.amount).m # <<>>

\* C30 as stated: a signing request is submitted only for an amount that was
\* given and is a number above zero.
C30_OnlyPositiveAmounts == Submitted => AmountIsPositive

----------------------------------------------------------------------------
(* Properties of the swap amounts *)

\* C23 as stated: the base units of an amount are the base units of the human
\* form of those base units: toRaw(fromRaw(toRaw(x, d), d), d) = toRaw(x, d).
C23_RawRoundTrip == rawOut.calls = 3 => rawOut.again = rawOut.raw

----------------------------------------------------------------------------
(* Properties of the session lookup *)

\* two characters are the same letter, in either case, or the same character
SameIgnoringCase(c, d) ==
  \/ c = d
  \/ \E k \in DOMAIN UpperCase : {c, d} = {UpperCase[k], LowerCase[k]}

EqualIgnoringCase(a, b) ==
  /\ Len(a) = Len(b)
  /\ \A i \in DOMAIN a : SameIgnoringCase(a[i], b[i])

\* what follows the second colon of an account string
AfterSecondColon(acct) ==
  LET first == IndexOfColon(acct, 1)
      second == IF first = 0 THEN 0 ELSE IndexOfColon(acct, first + 1)
  IN IF second = 0 THEN <<>> ELSE SubSeq(acct, second + 1, Len(acct))

\* the entries of the registry with an account of the given address
Holders ==
  {i \in DOMAIN lookIn.sessions :
     \E k \in DOMAIN lookIn.sessions[i].accounts :
       EqualIgnoringCase(AfterSecondColon(lookIn.sessions[i].accounts[k]),
                         lookIn.address)}

\* C25: findSessionByAddress returns null exactly when no session holds the
\* address, compared without regard to case; otherwise it returns a session
\* that holds it and whose updatedAt, or createdAt when it has no updatedAt, is
\* the greatest among those that hold it; resolveAddress leaves a given
\* --topic as it is when --address is given too.
C25_MostRecentHolder ==
  /\ "findSessionByAddress" \in lookOut.calls =>
       /\ lookOut.match = Null <=> Holders = {}
       /\ lookOut.match # Null =>
            \E i \in Holders :
              /\ lookIn.sessions[i] = lookOut.match
              /\ \A j \in Holders :
                   StampOf(lookIn.sessions[j]) <= StampOf(lookIn.sessions[i])
  /\ ("resolveAddress" \in lookOut.calls /\ lookIn.topic # "") =>
       /\ lookOut.topic = lookIn.topic
       /\ ~lookOut.exited

\* the address is held, in another case, by two sessions, and the one written
\* later, listed first, was returned
C25_Witness ==
  /\ "findSessionByAddress" \in lookOut.calls
  /\ Cardinality(Holders) = 2
  /\ lookIn.address = <<"0", "X", "a">>
  /\ StampOf(lookIn.sessions[1]) > StampOf(lookIn.sessions[2])
  /\ lookOut.match = lookIn.sessions[1]

----------------------------------------------------------------------------
(* Properties of the sign command *)

\* the namespace whose wallets implement a signing method
NamespaceOfMethod(method) ==
  IF method = "personal_sign" THEN eip155 ELSE solana

\* C27 as stated: personal_sign is requested only with the chain and address
\* of an eip155 account of the session, solana_signMessage only with those of
\* a solana account.
C27_MethodMatchesNamespace ==
  signOut.step = "requested" =>
    /\ signOut.account \in Range(signIn.accounts)
    /\ NamespaceOf(signOut.account) = NamespaceOfMethod(signOut.method)
    /\ NamespaceOf(signOut.chainId) = NamespaceOfMethod(signOut.method)

----------------------------------------------------------------------------
(* Properties of the session registry *)

\* the step keeps the session of topic t, with the accounts it had
KeepsSession(t) ==
  /\ registry'[t].present
  /\ registry'[t].accounts = registry[t].accounts

\* the step is a delete-session that names topic t, by --topic or by --address
DeletesTopic(t) ==
  \E argv \in StoreArgs :
    /\ resolveAddress(registry, argv).topic = t
    /\ DeleteSessionWith(argv)

\* the step is the end of a health invocation that was given --clean
HealthCleans == health.clean /\ HealthFinish

\* C22: a session the registry holds is still there, with the same accounts,
\* after every step of pair, auth, health and the reading commands; only a
\* delete-session for its topic or the end of a health --clean removes it
C22_NeverDeletedAutomatically ==
  [][\A t \in StoreTopics :
       registry[t].present => KeepsSession(t) \/ DeletesTopic(t) \/ HealthCleans]_vars

\* C22 witness: a session that went through a successful auth, a finished
\* health run and a reading command is still in the registry
C22_Witness ==
  /\ registry["T1"].present
  /\ registry["T1"].authenticated
  /\ auth.pc = "done"
  /\ health.pc = "done"
  /\ out = "found"

\* the address of the first account of the list whose namespace is eip155, Null
\* when there is none
EvmAddressOf(accounts) ==
  LET evm == {i \in DOMAIN accounts : At(Split(accounts[i]), 1) = eip155}
  IN IF evm = {} THEN Null
     ELSE AddressPart(accounts[CHOOSE i \in evm : \A j \in evm : i <= j])

\* a step of the auth invocation that is not the arrival of the signature
AuthOtherStep == AuthStart \/ AuthRejected \/ AuthClose

\* C24: an auth invocation writes the registry at most once; its steps other than
\* the arrival of the signature leave the registry as it is; the arrival of the
\* signature changes the entry of the authenticated topic only, which becomes
\* authenticated with authAddress the address of the session's EVM account and
\* keeps its accounts, peerName and createdAt
C24_AuthWritesOnceOnSuccess ==
  [][/\ auth'.writes <= 1
     /\ AuthOtherStep => registry' = registry
     /\ AuthSigned =>
          /\ \A t \in StoreTopics \ {auth.topic} : registry'[t] = registry[t]
          /\ registry'[auth.topic].present
          /\ registry'[auth.topic].authenticated
          /\ registry'[auth.topic].authAddress
               = EvmAddressOf(registry'[auth.topic].accounts)
          /\ registry'[auth.topic].authAddress # Null
          /\ registry[auth.topic].present =>
               /\ registry'[auth.topic].accounts = registry[auth.topic].accounts
               /\ registry'[auth.topic].peerName = registry[auth.topic].peerName
               /\ registry'[auth.topic].createdAt = registry[auth.topic].createdAt]_vars

\* C24 witness: the signature has arrived and the one write has marked the
\* session authenticated, next to another session that is not
C24_Witness ==
  /\ auth.pc = "close"
  /\ auth.writes = 1
  /\ out = "authenticated"
  /\ registry[auth.topic].authenticated
  /\ \E t \in StoreTopics \ {auth.topic} :
       registry[t].present /\ ~registry[t].authenticated

\* the step is the clean-up write of a health --clean invocation
CleanUpWrite == HealthCleans /\ health.deadTopics # <<>>

\* C28: the clean-up write of health --clean removes the topics whose ping failed
\* and leaves every other topic with the entry the registry holds at that moment
C28_CleanRemovesOnlyDead ==
  [][CleanUpWrite =>
       \A t \in StoreTopics :
         registry'[t] = IF t \in Range(health.deadTopics) THEN NoSession
                        ELSE registry[t]]_vars

\* C29: a topic that a finished delete-session removed is absent from the
\* registry (a new pairing never gets the topic of an earlier session)
C29_DeletedStaysAbsent == \A t \in deleted : ~registry[t].present

====
